---- MODULE Spec2Model ----
(***************************************************************************)
(* Feedback-form builder: the owner's form editors (CreateForm, EditForm), *)
(* the stored tables (forms, questions, responses, answers, with their     *)
(* row-level-security policies and foreign keys) and the public form page. *)
(*                                                                         *)
(* A string is a sequence of one-character strings, so that trim() is      *)
(* computed and not assumed.  A uuid is a natural number taken from a      *)
(* counter that never goes back.                                           *)
(***************************************************************************)
EXTENDS Integers, Sequences, FiniteSets, TLC

\* ------------------------------------------------------------------ bounds
MaxQuestions == 2
MaxFormId == 2
MaxQuestionId == 4
MaxResponseId == 2
MaxOptions == 2
MaxClock == 2

\* --------------------------------------------------------------- strings
Empty == << >>

Range(s) == {s[i] : i \in 1..Len(s)}

RECURSIVE TrimStart(_)
TrimStart(s) == IF s # << >> /\ Head(s) = " " THEN TrimStart(Tail(s)) ELSE s

RECURSIVE TrimEnd(_)
TrimEnd(s) ==
    IF s # << >> /\ s[Len(s)] = " " THEN TrimEnd(SubSeq(s, 1, Len(s) - 1)) ELSE s

\* String.prototype.trim
Trim(s) == TrimEnd(TrimStart(s))

\* JavaScript truthiness of a string: the empty string is falsy
Truthy(s) == s # << >>

\* options.filter(opt => opt.trim()), keeping the order
RECURSIVE NonBlank(_)
NonBlank(options) ==
    IF options = << >> THEN << >>
    ELSE IF Truthy(Trim(Head(options)))
         THEN <<Head(options)>> \o NonBlank(Tail(options))
         ELSE NonBlank(Tail(options))

\* (rating).toString() of the rating buttons 1..5
RatingScale == 1..5
Digits == <<"1", "2", "3", "4", "5">>
RatingToString(n) == <<Digits[n]>>

\* ---------------------------------------------------------------- errors
Err(msg, numbers) == [msg |-> msg, numbers |-> numbers]
NoError == Err("", << >>)

\* ----------------------------------------------------------------- state
VARIABLES
    forms,          \* table forms: rows [id, user_id, title, is_active]
    questions,      \* table questions: rows [id, form_id, question_text, ...]
    responses,      \* table responses: rows [id, form_id, submitted_at]
    answers,        \* table answers: rows [response_id, question_id, answer_text]
    nextFormId,     \* gen_random_uuid() of forms
    nextQuestionId, \* gen_random_uuid() of questions
    nextResponseId, \* gen_random_uuid() of responses
    clock,          \* Date.now()
    edPage,         \* the owner's page: "forms", "create" or "edit"
    edForm,         \* the editor's form fields [id, title, is_active]
    edQuestions,    \* the editor's draft question list
    edPc,           \* where saveForm is suspended: "idle" or the awaited call
    edSaving,       \* useState saving
    edError,        \* useState error
    edNewFormId,    \* the form row returned by the create path's insert
    pubRole,        \* who views the public page: "anon", "owner" or "other"
    pubFormId,      \* the :formId of the public page's URL
    pubForm,        \* formData of the public page
    pubQuestions,   \* useState questions of the public page
    pubAnswers,     \* useState answers: question id -> value
    pubPc,          \* "closed", or where loadForm / submitForm is suspended
    pubSubmitting,  \* useState submitting
    pubSubmitted,   \* useState submitted
    pubError,       \* useState error
    pubResponseId,  \* the response row returned by the insert
    calendar,       \* the time zone of the owner's browser and the month's length
    frPc,           \* FormResponses: "closed", "loadForm", "loadResponses", "done"
    frFormId,       \* the :formId of the FormResponses URL
    frForm,         \* useState form of FormResponses
    frResponses,    \* useState responses of FormResponses
    frStats,        \* useState stats of FormResponses
    frError,        \* useState error of FormResponses
    frCsv,          \* the csvContent of the last download of FormResponses
    rsPc,           \* Responses: "closed", "loadForms", "loadResponses", "done"
    rsForms,        \* useState forms of Responses
    rsResponses,    \* useState responses of Responses
    rsStats,        \* useState stats of Responses
    rsError,        \* useState error of Responses
    rsCsv,          \* the csvContent of the last download of Responses
    dbPc,           \* Dashboard: "closed", or the select loadDashboardData awaits
    dbRecentForms,  \* useState recentForms of Dashboard
    dbAllForms,     \* allFormsData of loadDashboardData
    dbStats,        \* useState stats of Dashboard
    dbTrend         \* useState responsesTrend of Dashboard

storeVars == <<forms, questions, responses, answers,
               nextFormId, nextQuestionId, nextResponseId>>
edVars == <<edPage, edForm, edQuestions, edPc, edSaving, edError, edNewFormId, clock>>
pubVars == <<pubRole, pubFormId, pubForm, pubQuestions, pubAnswers, pubPc,
             pubSubmitting, pubSubmitted, pubError, pubResponseId>>
frVars == <<frPc, frFormId, frForm, frResponses, frStats, frError, frCsv>>
rsVars == <<rsPc, rsForms, rsResponses, rsStats, rsError, rsCsv>>
dbVars == <<dbPc, dbRecentForms, dbAllForms, dbStats, dbTrend>>
anaVars == <<calendar, frVars, rsVars, dbVars>>
vars == <<storeVars, edVars, pubVars, anaVars>>

Owner == "owner"
QuestionTypes == {"text", "multiple_choice", "rating"}
NoForm == [id |-> 0, user_id |-> "", title |-> Empty, is_active |-> FALSE]
NoAnswers == [q \in {} |-> Empty]

\* ------------------------------------------------------ stored questions
FormById(id) == {f \in forms : f.id = id}
QuestionsOf(formId) == {q \in questions : q.form_id = formId}

\* .order('order_index'): the rows in ascending order_index; rows with the
\* same order_index come in any order
OrderedByIndex(rows) ==
    {s \in [1..Cardinality(rows) -> rows] :
        /\ \A i, j \in DOMAIN s : i < j => s[i] # s[j]
        /\ \A i, j \in DOMAIN s : i < j => s[i].order_index <= s[j].order_index}

\* variant: a delete that removes no row
QuestionsAfterNoDelete(formId) == questions

\* .delete().eq('form_id', formId) on questions: the rows that stay
QuestionsAfterDelete(formId) == questions \ QuestionsOf(formId)

\* variant: a delete of questions that leaves their answers stored
AnswersAfterNoCascade(deleted) == answers

\* ON DELETE CASCADE of answers.question_id
AnswersAfterQuestionDelete(deleted) ==
    {a \in answers : a.question_id \notin {q.id : q \in deleted}}

\* ---------------------------------------------------- row-level security
\* forms, SELECT: "Public can read active forms" TO anon,
\* "Users can read own forms" TO authenticated
CanReadForm(role, f) ==
    \/ role = "anon" /\ f.is_active
    \/ role # "anon" /\ f.user_id = role

\* questions, SELECT: "Public can read questions for active forms" TO anon,
\* "Users can manage questions for own forms" TO authenticated
CanReadQuestions(role, formId) == \E f \in FormById(formId) : CanReadForm(role, f)

\* variant: an INSERT policy on responses that does not look at is_active
CanInsertResponseAnyForm(role, formId) ==
    role = "anon" /\ FormById(formId) # {}

\* responses, INSERT: "Anonymous users can submit responses to active forms"
\* TO anon; no INSERT policy names the role authenticated
CanInsertResponse(role, formId) ==
    role = "anon" /\ \E f \in FormById(formId) : f.is_active

\* answers, INSERT: "Anonymous users can submit answers" TO anon
CanInsertAnswers(role, responseId) ==
    /\ role = "anon"
    /\ \E r \in responses :
          r.id = responseId /\ \E f \in FormById(r.form_id) : f.is_active

\* variant: an answers table whose question_id is no foreign key
QuestionsUnchecked(rows) == TRUE

\* answers.question_id REFERENCES questions(id)
QuestionsExist(rows) ==
    \A i \in DOMAIN rows : \E q \in questions : q.id = rows[i].question_id

\* ------------------------------------------------- public form: functions
\* answers[q.id]; a key that was never set reads as undefined, which is
\* falsy like the empty string
AnswerOf(ans, qid) == IF qid \in DOMAIN ans THEN ans[qid] ELSE Empty

\* variant: a missing-answer predicate without the trim of text answers
IsMissingNoTrim(q, ans) == ~Truthy(AnswerOf(ans, q.id))

\* the predicate of missingAnswers in validateForm
IsMissing(q, ans) ==
    \/ ~Truthy(AnswerOf(ans, q.id))
    \/ q.question_type = "text" /\ ~Truthy(Trim(AnswerOf(ans, q.id)))

\* questions.findIndex(question => question.id === id), 0-based, -1 if none
FindIndex(qs, id) ==
    IF \E i \in DOMAIN qs : qs[i].id = id
    THEN (CHOOSE i \in DOMAIN qs :
             qs[i].id = id /\ \A j \in DOMAIN qs : qs[j].id = id => i <= j) - 1
    ELSE -1

\* variant: a validation that stops at the first missing answer
MissingFirstOnly(qs, ans) ==
    LET missing == SelectSeq(qs, LAMBDA q : q.is_required /\ IsMissing(q, ans))
    IN IF missing = << >> THEN << >> ELSE <<FindIndex(qs, missing[1].id) + 1>>

\* validateForm: the question numbers of the message, << >> when it accepts
MissingQuestionNumbers(qs, ans) ==
    LET required == SelectSeq(qs, LAMBDA q : q.is_required)
        missing == SelectSeq(required, LAMBDA q : IsMissing(q, ans))
    IN [i \in DOMAIN missing |-> FindIndex(qs, missing[i].id) + 1]

ValidateForm(qs, ans) ==
    IF MissingQuestionNumbers(qs, ans) # << >>
    THEN Err("Please answer all required questions. Missing: Question",
             MissingQuestionNumbers(qs, ans))
    ELSE NoError

\* the keys of the answer map as a sequence (Object.entries; the order of
\* the rows of one bulk insert does not show in the table)
KeysOf(ans) ==
    CHOOSE s \in [1..Cardinality(DOMAIN ans) -> DOMAIN ans] :
        \A i, j \in DOMAIN s : i < j => s[i] < s[j]

\* variant: a filter that keeps every non-empty value
KeepAnswerNoTrim(qs, qid, value) == Truthy(value)

\* the filter of answersToInsert; questions.find(...)?.question_type
KeepAnswer(qs, qid, value) ==
    IF ~Truthy(value) THEN FALSE
    ELSE IF FindIndex(qs, qid) # -1 /\ qs[FindIndex(qs, qid) + 1].question_type = "text"
    THEN Len(Trim(value)) > 0
    ELSE TRUE

\* variant: answer rows that carry the value as typed
AnswersToInsertUntrimmed(qs, ans, responseId) ==
    LET kept == SelectSeq(KeysOf(ans), LAMBDA k : KeepAnswer(qs, k, ans[k]))
    IN [i \in DOMAIN kept |->
           [response_id |-> responseId,
            question_id |-> kept[i],
            answer_text |-> ans[kept[i]]]]

\* answersToInsert of submitForm
AnswersToInsert(qs, ans, responseId) ==
    LET kept == SelectSeq(KeysOf(ans), LAMBDA k : KeepAnswer(qs, k, ans[k]))
    IN [i \in DOMAIN kept |->
           [response_id |-> responseId,
            question_id |-> kept[i],
            answer_text |-> Trim(ans[kept[i]])]]

\* the catch block of submitForm: the message shown for a backend error
SubmitErrorMessage(kind) ==
    CASE kind = "rls" ->
           Err("Unable to submit form. Please check if the form is still active.", << >>)
      [] kind = "fk" ->
           Err("Form configuration error. Please contact support.", << >>)
      [] OTHER -> Err("Submission failed", << >>)

\* what the rendered control of a question can pass to handleAnswerChange
ControlEmits(q, value) ==
    CASE q.question_type = "text" -> TRUE
      [] q.question_type = "multiple_choice" -> value \in Range(q.options)
      [] OTHER -> value \in {RatingToString(n) : n \in RatingScale}

\* --------------------------------------------------- public form: actions
PubClosed ==
    /\ pubRole = "anon" /\ pubFormId = 0 /\ pubForm = NoForm
    /\ pubQuestions = << >> /\ pubAnswers = NoAnswers /\ pubPc = "closed"
    /\ pubSubmitting = FALSE /\ pubSubmitted = FALSE /\ pubError = NoError
    /\ pubResponseId = 0

\* the page is unmounted: a page opened later starts from the initial state
PubReset ==
    /\ pubRole' = "anon" /\ pubFormId' = 0 /\ pubForm' = NoForm
    /\ pubQuestions' = << >> /\ pubAnswers' = NoAnswers /\ pubPc' = "closed"
    /\ pubSubmitting' = FALSE /\ pubSubmitted' = FALSE /\ pubError' = NoError
    /\ pubResponseId' = 0

\* a visitor opens /form/:formId; useEffect starts loadForm, which awaits
\* the select of the form row
PubOpen(role, formId) ==
    /\ pubPc = "closed"
    /\ pubRole' = role
    /\ pubFormId' = formId
    /\ pubPc' = "loadForm"
    /\ UNCHANGED <<pubForm, pubQuestions, pubAnswers, pubSubmitting, pubSubmitted,
                   pubError, pubResponseId>>
    /\ UNCHANGED <<storeVars, edVars, anaVars>>

\* the page is left (a page opened later is a new instance)
PubClose ==
    /\ pubPc \in {"ready", "unavailable"}
    /\ PubReset
    /\ UNCHANGED <<storeVars, edVars, anaVars>>

\* loadForm, the select of the form row with .eq('is_active', true).single()
PubLoadForm ==
    /\ pubPc = "loadForm"
    /\ LET rows == {f \in FormById(pubFormId) : f.is_active /\ CanReadForm(pubRole, f)}
       IN \/ /\ Cardinality(rows) = 1
             /\ pubForm' = CHOOSE f \in rows : TRUE
             /\ pubPc' = "loadQuestions"
             /\ UNCHANGED pubError
          \/ /\ Cardinality(rows) # 1
             /\ pubError' = Err("Form not found or is no longer active", << >>)
             /\ pubPc' = "unavailable"
             /\ UNCHANGED pubForm
          \/ /\ pubError' = Err("Failed to load form", << >>)
             /\ pubPc' = "unavailable"
             /\ UNCHANGED pubForm
    /\ UNCHANGED <<pubRole, pubFormId, pubQuestions, pubAnswers, pubSubmitting,
                   pubSubmitted, pubResponseId>>
    /\ UNCHANGED <<storeVars, edVars, anaVars>>

\* loadForm, the select of the questions, then setForm and setQuestions
PubLoadQuestions ==
    /\ pubPc = "loadQuestions"
    /\ \/ /\ \E qs \in OrderedByIndex(IF CanReadQuestions(pubRole, pubFormId)
                                     THEN QuestionsOf(pubFormId) ELSE {}) :
                pubQuestions' = qs
          /\ pubPc' = "ready"
          /\ UNCHANGED <<pubForm, pubError>>
       \/ /\ pubError' = Err("Failed to load form questions", << >>)
          /\ pubForm' = NoForm
          /\ pubPc' = "unavailable"
          /\ UNCHANGED pubQuestions
    /\ UNCHANGED <<pubRole, pubFormId, pubAnswers, pubSubmitting, pubSubmitted,
                   pubResponseId>>
    /\ UNCHANGED <<storeVars, edVars, anaVars>>

\* handleAnswerChange(questionId, value), called by the control of a
\* rendered question
HandleAnswerChange(questionId, value) ==
    /\ pubPc = "ready" /\ ~pubSubmitted
    /\ \E i \in DOMAIN pubQuestions :
          pubQuestions[i].id = questionId /\ ControlEmits(pubQuestions[i], value)
    /\ pubAnswers' = [k \in DOMAIN pubAnswers \cup {questionId} |->
                         IF k = questionId THEN value ELSE pubAnswers[k]]
    /\ UNCHANGED <<pubRole, pubFormId, pubForm, pubQuestions, pubPc, pubSubmitting,
                   pubSubmitted, pubError, pubResponseId>>
    /\ UNCHANGED <<storeVars, edVars, anaVars>>

\* what submitForm does with the verdict of validateForm: return, or go on
\* to the insert of the response row
SubmitAfterValidation(verdict) ==
    IF verdict # NoError
    THEN [pc |-> "ready", submitting |-> FALSE, error |-> verdict]
    ELSE [pc |-> "insertResponse", submitting |-> TRUE, error |-> NoError]

\* variant: a submitForm that can still be called on the submitted page
SubmitFormWhenSubmitted ==
    /\ pubPc = "ready" /\ ~pubSubmitting
    /\ LET next == SubmitAfterValidation(ValidateForm(pubQuestions, pubAnswers))
       IN /\ pubPc' = next.pc
          /\ pubSubmitting' = next.submitting
          /\ pubError' = next.error
    /\ pubSubmitted' = FALSE
    /\ UNCHANGED <<pubRole, pubFormId, pubForm, pubQuestions, pubAnswers, pubResponseId>>
    /\ UNCHANGED <<storeVars, edVars, anaVars>>

\* submitForm up to its first await
SubmitForm ==
    /\ pubPc = "ready" /\ ~pubSubmitting /\ ~pubSubmitted
    /\ LET next == SubmitAfterValidation(ValidateForm(pubQuestions, pubAnswers))
       IN /\ pubPc' = next.pc
          /\ pubSubmitting' = next.submitting
          /\ pubError' = next.error
    /\ UNCHANGED <<pubRole, pubFormId, pubForm, pubQuestions, pubAnswers,
                   pubSubmitted, pubResponseId>>
    /\ UNCHANGED <<storeVars, edVars, anaVars>>

\* the catch and finally blocks of submitForm
SubmitFails(kind) ==
    /\ pubError' = SubmitErrorMessage(kind)
    /\ pubSubmitting' = FALSE
    /\ pubPc' = "ready"
    /\ UNCHANGED <<pubRole, pubFormId, pubForm, pubQuestions, pubAnswers,
                   pubSubmitted, pubResponseId>>

\* variant: a retry that reuses the response row of the page's earlier
\* attempt instead of inserting a new one
SubmitInsertResponseOnce ==
    /\ pubPc = "insertResponse"
    /\ \/ /\ CanInsertResponse(pubRole, pubFormId)
          /\ nextResponseId <= MaxResponseId
          /\ LET id == IF pubResponseId # 0 THEN pubResponseId ELSE nextResponseId
             IN /\ responses' = responses \cup {[id |-> id, form_id |-> pubFormId,
                                               submitted_at |-> clock]}
                /\ nextResponseId' = IF pubResponseId # 0 THEN nextResponseId
                                      ELSE nextResponseId + 1
                /\ pubResponseId' = id
                /\ IF AnswersToInsert(pubQuestions, pubAnswers, id) # << >>
                   THEN /\ pubPc' = "insertAnswers"
                        /\ UNCHANGED <<pubSubmitting, pubSubmitted>>
                   ELSE /\ pubPc' = "ready"
                        /\ pubSubmitted' = TRUE
                        /\ pubSubmitting' = FALSE
          /\ UNCHANGED <<pubRole, pubFormId, pubForm, pubQuestions, pubAnswers, pubError>>
          /\ UNCHANGED <<forms, questions, answers, nextFormId, nextQuestionId>>
       \/ /\ ~CanInsertResponse(pubRole, pubFormId)
          /\ SubmitFails("rls")
          /\ UNCHANGED storeVars
       \/ /\ SubmitFails("other")
          /\ UNCHANGED storeVars
    /\ UNCHANGED <<edVars, anaVars>>

\* submitForm: the insert of the response row, then answersToInsert
SubmitInsertResponse ==
    /\ pubPc = "insertResponse"
    /\ \/ /\ CanInsertResponse(pubRole, pubFormId)
          /\ nextResponseId <= MaxResponseId
          /\ responses' = responses \cup {[id |-> nextResponseId, form_id |-> pubFormId,
                                      submitted_at |-> clock]}
          /\ nextResponseId' = nextResponseId + 1
          /\ pubResponseId' = nextResponseId
          /\ IF AnswersToInsert(pubQuestions, pubAnswers, nextResponseId) # << >>
             THEN /\ pubPc' = "insertAnswers"
                  /\ UNCHANGED <<pubSubmitting, pubSubmitted>>
             ELSE /\ pubPc' = "ready"
                  /\ pubSubmitted' = TRUE
                  /\ pubSubmitting' = FALSE
          /\ UNCHANGED <<pubRole, pubFormId, pubForm, pubQuestions, pubAnswers, pubError>>
          /\ UNCHANGED <<forms, questions, answers, nextFormId, nextQuestionId>>
       \/ /\ ~CanInsertResponse(pubRole, pubFormId)
          /\ SubmitFails("rls")
          /\ UNCHANGED storeVars
       \/ /\ SubmitFails("other")
          /\ UNCHANGED storeVars
    /\ UNCHANGED <<edVars, anaVars>>

\* submitForm: the bulk insert of the answer rows, then setSubmitted(true)
SubmitInsertAnswers ==
    /\ pubPc = "insertAnswers"
    /\ LET rows == AnswersToInsert(pubQuestions, pubAnswers, pubResponseId)
       IN \/ /\ CanInsertAnswers(pubRole, pubResponseId)
             /\ QuestionsExist(rows)
             /\ answers' = answers \cup Range(rows)
             /\ pubSubmitted' = TRUE
             /\ pubSubmitting' = FALSE
             /\ pubPc' = "ready"
             /\ UNCHANGED <<pubRole, pubFormId, pubForm, pubQuestions, pubAnswers,
                            pubError, pubResponseId>>
             /\ UNCHANGED <<forms, questions, responses,
                            nextFormId, nextQuestionId, nextResponseId>>
          \/ /\ ~CanInsertAnswers(pubRole, pubResponseId)
             /\ SubmitFails("rls")
             /\ UNCHANGED storeVars
          \/ /\ CanInsertAnswers(pubRole, pubResponseId)
             /\ ~QuestionsExist(rows)
             /\ SubmitFails("fk")
             /\ UNCHANGED storeVars
          \/ /\ SubmitFails("other")
             /\ UNCHANGED storeVars
    /\ UNCHANGED <<edVars, anaVars>>

\* ------------------------------------------------- form editors: functions
NoId == 0

\* the question as the editors hold it
Draft(id, text, type, options, required, index) ==
    [id |-> id, question_text |-> text, question_type |-> type,
     options |-> options, is_required |-> required, order_index |-> index]

\* newQuestion of CreateForm.addQuestion; the id is `temp-${Date.now()}`
CreateNewQuestion(now, qs) == Draft(now, Empty, "text", << >>, TRUE, Len(qs))

\* newQuestion of EditForm.addQuestion; it has no id
EditNewQuestion(qs) == Draft(NoId, Empty, "text", << >>, FALSE, Len(qs))

\* .map((q, index) => ({ ...q, order_index: index })), and the forEach that
\* assigns q.order_index = index to the different objects of a list
Renumber(qs) == [i \in DOMAIN qs |-> [qs[i] EXCEPT !.order_index = i - 1]]

\* Array.prototype.sort((a, b) => a.order_index - b.order_index): stable
RECURSIVE InsertByIndex(_, _)
InsertByIndex(sorted, q) ==
    IF sorted = << >> THEN <<q>>
    ELSE IF sorted[Len(sorted)].order_index <= q.order_index
         THEN Append(sorted, q)
         ELSE Append(InsertByIndex(SubSeq(sorted, 1, Len(sorted) - 1), q),
                     sorted[Len(sorted)])

RECURSIVE SortByIndex(_)
SortByIndex(qs) ==
    IF qs = << >> THEN << >>
    ELSE InsertByIndex(SortByIndex(SubSeq(qs, 1, Len(qs) - 1)), qs[Len(qs)])

\* CreateForm.addQuestion
CreateAdd(qs, now) == Append(qs, CreateNewQuestion(now, qs))

\* CreateForm.updateQuestion(questionId, updates)
CreateUpdate(qs, questionId, updates) ==
    [i \in DOMAIN qs |-> IF qs[i].id = questionId THEN updates ELSE qs[i]]

\* variant: a deleteQuestion that does not renumber
CreateDeleteNoRenumber(qs, questionId) ==
    SelectSeq(qs, LAMBDA q : q.id # questionId)

\* CreateForm.deleteQuestion(questionId)
CreateDelete(qs, questionId) ==
    Renumber(SelectSeq(qs, LAMBDA q : q.id # questionId))

\* questions.forEach((q, index) => { q.order_index = index }) of moveQuestion:
\* the objects of the list are assigned in place. updateQuestion puts one
\* object at every position whose id matches, and two positions hold one
\* object exactly when their records are equal (different objects of a draft
\* differ in order_index); such an object keeps the index assigned last.
RenumberInPlace(qs) ==
    [i \in DOMAIN qs |->
        [qs[i] EXCEPT !.order_index =
            (CHOOSE j \in DOMAIN qs :
                /\ qs[j] = qs[i]
                /\ \A k \in DOMAIN qs : qs[k] = qs[i] => k <= j) - 1]]

\* CreateForm.moveQuestion(questionId, direction)
CreateMove(qs, questionId, direction) ==
    LET currentIndex == FindIndex(qs, questionId)
        newIndex == IF direction = "up" THEN currentIndex - 1 ELSE currentIndex + 1
    IN IF currentIndex = -1 THEN qs
       ELSE IF newIndex < 0 \/ newIndex >= Len(qs) THEN qs
       ELSE RenumberInPlace([i \in DOMAIN qs |->
                                IF i = currentIndex + 1 THEN qs[newIndex + 1]
                                ELSE IF i = newIndex + 1 THEN qs[currentIndex + 1]
                                ELSE qs[i]])

\* QuestionEditor, onValueChange of the type select
EditorSetType(q, type) ==
    [q EXCEPT !.question_type = type,
              !.options = IF type = "text" THEN << >> ELSE q.options]

\* EditForm.addQuestion
EditAdd(qs) == Append(qs, EditNewQuestion(qs))

\* EditForm.removeQuestion(index), index 0-based
EditRemove(qs, index) ==
    Renumber(IF index + 1 \in DOMAIN qs
             THEN SubSeq(qs, 1, index) \o SubSeq(qs, index + 2, Len(qs))
             ELSE qs)

\* the validation of CreateForm.saveForm: the message thrown, or NoError
CreateValidation(form, qs) ==
    IF ~Truthy(Trim(form.title))
    THEN Err("Form title is required", << >>)
    ELSE IF Len(qs) = 0
    THEN Err("At least one question is required", << >>)
    ELSE IF \E i \in DOMAIN qs : ~Truthy(Trim(qs[i].question_text))
    THEN Err("All questions must have text", << >>)
    ELSE IF \E i \in DOMAIN qs :
               /\ qs[i].question_type = "multiple_choice"
               /\ Len(NonBlank(qs[i].options)) = 0
    THEN Err("Multiple choice questions must have at least one option", << >>)
    ELSE NoError

\* the body of the loop of EditForm.saveForm for question i (1-based)
EditQuestionError(qs, i) ==
    IF ~Truthy(Trim(qs[i].question_text))
    THEN Err("Question text is required", <<i>>)
    ELSE IF qs[i].question_type = "multiple_choice" /\ Len(qs[i].options) < 2
    THEN Err("Question must have at least 2 options", <<i>>)
    ELSE NoError

\* variant: a validation that counts the questions before it reads the title
EditValidationCountFirst(form, qs) ==
    IF Len(qs) = 0
    THEN Err("At least one question is required", << >>)
    ELSE IF ~Truthy(Trim(form.title))
    THEN Err("Form title is required", << >>)
    ELSE IF \E i \in DOMAIN qs : EditQuestionError(qs, i) # NoError
    THEN EditQuestionError(qs, CHOOSE i \in DOMAIN qs : EditQuestionError(qs, i) # NoError)
    ELSE NoError

\* the validation of EditForm.saveForm: the message set, or NoError
EditValidation(form, qs) ==
    IF ~Truthy(Trim(form.title))
    THEN Err("Form title is required", << >>)
    ELSE IF Len(qs) = 0
    THEN Err("At least one question is required", << >>)
    ELSE IF \E i \in DOMAIN qs : EditQuestionError(qs, i) # NoError
    THEN EditQuestionError(qs, CHOOSE i \in DOMAIN qs :
             /\ EditQuestionError(qs, i) # NoError
             /\ \A j \in DOMAIN qs : EditQuestionError(qs, j) # NoError => i <= j)
    ELSE NoError

\* questionsToInsert of CreateForm.saveForm
CreateQuestionsToInsert(formId, qs) ==
    [i \in DOMAIN qs |->
        [form_id |-> formId,
         question_text |-> Trim(qs[i].question_text),
         question_type |-> qs[i].question_type,
         options |-> IF qs[i].question_type = "multiple_choice"
                     THEN NonBlank(qs[i].options) ELSE << >>,
         is_required |-> qs[i].is_required,
         order_index |-> qs[i].order_index]]

\* questionsToInsert of EditForm.saveForm
EditQuestionsToInsert(formId, qs) ==
    [i \in DOMAIN qs |->
        [form_id |-> formId,
         question_text |-> Trim(qs[i].question_text),
         question_type |-> qs[i].question_type,
         options |-> NonBlank(qs[i].options),
         is_required |-> qs[i].is_required,
         order_index |-> i - 1]]

\* the rows of one bulk insert into questions, with the ids the table gives
WithIds(rows, firstId) ==
    {[id |-> firstId + i - 1,
      form_id |-> rows[i].form_id,
      question_text |-> rows[i].question_text,
      question_type |-> rows[i].question_type,
      options |-> rows[i].options,
      is_required |-> rows[i].is_required,
      order_index |-> rows[i].order_index] : i \in DOMAIN rows}

\* a stored question as the edit page holds it after loadForm
AsDraft(row) ==
    Draft(row.id, row.question_text, row.question_type, row.options,
          row.is_required, row.order_index)

\* variant: a saveForm that goes on to the first storage call whatever
\* the verdict
ProceedAfterValidation(verdict, firstCall) ==
    [pc |-> firstCall, saving |-> TRUE, error |-> verdict]

\* what saveForm does with the verdict of its validation: stop with the
\* message, or go on to the first storage call
SaveAfterValidation(verdict, firstCall) ==
    IF verdict # NoError
    THEN [pc |-> "idle", saving |-> FALSE, error |-> verdict]
    ELSE [pc |-> firstCall, saving |-> TRUE, error |-> NoError]

BackendError == Err("backend error", << >>)

\* ---------------------------------------------------- form editors: state
NoDraftForm == [id |-> 0, title |-> Empty, is_active |-> TRUE]

\* no editor is mounted (the owner is on the forms list)
EdClosed ==
    /\ edPage = "forms" /\ edForm = NoDraftForm /\ edQuestions = << >>
    /\ edPc = "idle" /\ edSaving = FALSE /\ edError = NoError /\ edNewFormId = 0

\* the editor is unmounted: an editor opened later starts from the initial state
EdReset ==
    /\ edPage' = "forms" /\ edForm' = NoDraftForm /\ edQuestions' = << >>
    /\ edPc' = "idle" /\ edSaving' = FALSE /\ edError' = NoError /\ edNewFormId' = 0

\* the handlers of an editor run between two saves, not during one
Editing(page) == edPage = page /\ edPc = "idle"

\* Date.now() moves on
Tick ==
    /\ clock < MaxClock
    /\ clock' = clock + 1
    /\ UNCHANGED <<edPage, edForm, edQuestions, edPc, edSaving, edError, edNewFormId>>
    /\ UNCHANGED <<storeVars, pubVars, anaVars>>

\* /forms/new is opened: the initial state of CreateForm
OpenCreate ==
    /\ edPage = "forms"
    /\ edPage' = "create"
    /\ UNCHANGED <<edForm, edQuestions, edPc, edSaving, edError, edNewFormId, clock>>
    /\ UNCHANGED <<storeVars, pubVars, anaVars>>

\* the editor is left by its back link
LeaveEditor ==
    /\ edPage \in {"create", "edit"} /\ edPc = "idle"
    /\ EdReset
    /\ UNCHANGED clock
    /\ UNCHANGED <<storeVars, pubVars, anaVars>>

\* an editor handler that replaces the form fields
SetForm(page, form) ==
    /\ Editing(page)
    /\ edForm' = form
    /\ UNCHANGED <<edPage, edQuestions, edPc, edSaving, edError, edNewFormId, clock>>
    /\ UNCHANGED <<storeVars, pubVars, anaVars>>

\* an editor handler that replaces the question list; CreateForm renders
\* formData.questions.sort(...) and so sorts the list it holds
SetQuestions(page, qs) ==
    /\ Editing(page)
    /\ edQuestions' = IF page = "create" THEN SortByIndex(qs) ELSE qs
    /\ UNCHANGED <<edPage, edForm, edPc, edSaving, edError, edNewFormId, clock>>
    /\ UNCHANGED <<storeVars, pubVars, anaVars>>

\* --------------------------------------------------- CreateForm: handlers
CreateSetTitle(title) == SetForm("create", [edForm EXCEPT !.title = title])

CreateSetActive(active) == SetForm("create", [edForm EXCEPT !.is_active = active])

CreateAddQuestion ==
    /\ Len(edQuestions) < MaxQuestions
    /\ SetQuestions("create", CreateAdd(edQuestions, clock))

\* onUpdate of the QuestionEditor of the i-th rendered question
CreateUpdateQuestion(i, updates) ==
    /\ i \in DOMAIN edQuestions
    /\ SetQuestions("create", CreateUpdate(edQuestions, edQuestions[i].id, updates))

CreateSetText(i, text) ==
    /\ i \in DOMAIN edQuestions
    /\ CreateUpdateQuestion(i, [edQuestions[i] EXCEPT !.question_text = text])

CreateSetType(i, type) ==
    /\ i \in DOMAIN edQuestions
    /\ CreateUpdateQuestion(i, EditorSetType(edQuestions[i], type))

CreateSetRequired(i, required) ==
    /\ i \in DOMAIN edQuestions
    /\ CreateUpdateQuestion(i, [edQuestions[i] EXCEPT !.is_required = required])

\* QuestionEditor.addOption, shown for a multiple_choice question
CreateAddOption(i) ==
    /\ i \in DOMAIN edQuestions
    /\ edQuestions[i].question_type = "multiple_choice"
    /\ Len(edQuestions[i].options) < MaxOptions
    /\ CreateUpdateQuestion(i, [edQuestions[i] EXCEPT !.options = Append(@, Empty)])

\* QuestionEditor.updateOption(index, value)
CreateSetOption(i, k, value) ==
    /\ i \in DOMAIN edQuestions
    /\ edQuestions[i].question_type = "multiple_choice"
    /\ k \in DOMAIN edQuestions[i].options
    /\ CreateUpdateQuestion(i, [edQuestions[i] EXCEPT !.options[k] = value])

\* onDelete of the QuestionEditor of the i-th rendered question
CreateDeleteQuestion(i) ==
    /\ i \in DOMAIN edQuestions
    /\ SetQuestions("create", CreateDelete(edQuestions, edQuestions[i].id))

\* onMoveUp / onMoveDown of the i-th rendered question; the button is
\* disabled when canMoveUp / canMoveDown is false
CreateMoveQuestion(i, direction) ==
    /\ i \in DOMAIN edQuestions
    /\ direction = "up" => i > 1
    /\ direction = "down" => i < Len(edQuestions)
    /\ SetQuestions("create", CreateMove(edQuestions, edQuestions[i].id, direction))

\* the Save button of CreateForm is enabled
CreateSaveEnabled ==
    ~edSaving /\ Truthy(Trim(edForm.title)) /\ Len(edQuestions) # 0

\* CreateForm.saveForm up to its first await
CreateSaveForm ==
    /\ Editing("create") /\ CreateSaveEnabled
    /\ LET next == SaveAfterValidation(CreateValidation(edForm, edQuestions), "insertForm")
       IN /\ edPc' = next.pc
          /\ edSaving' = next.saving
          /\ edError' = next.error
    /\ UNCHANGED <<edPage, edForm, edQuestions, edNewFormId, clock>>
    /\ UNCHANGED <<storeVars, pubVars, anaVars>>

\* variant: a saveForm that does not test the error of the update and of
\* the delete and goes on to the next storage call
SaveFailsGoesOn ==
    /\ edPc' = CASE edPc = "update" -> "delete"
                 [] edPc = "delete" -> "insert"
                 [] OTHER -> "idle"
    /\ edSaving' = (edPc \in {"update", "delete"})
    /\ edError' = IF edPc \in {"update", "delete"} THEN edError ELSE BackendError
    /\ UNCHANGED <<edPage, edForm, edQuestions, edNewFormId, clock>>
    /\ UNCHANGED storeVars

\* variant: a saveForm whose catch block is followed by no finally block
SaveFailsKeepsSaving ==
    /\ edError' = BackendError
    /\ edSaving' = edSaving
    /\ edPc' = "idle"
    /\ UNCHANGED <<edPage, edForm, edQuestions, edNewFormId, clock>>
    /\ UNCHANGED storeVars

\* the catch and finally blocks of saveForm after a storage call failed
SaveFails ==
    /\ edError' = BackendError
    /\ edSaving' = FALSE
    /\ edPc' = "idle"
    /\ UNCHANGED <<edPage, edForm, edQuestions, edNewFormId, clock>>
    /\ UNCHANGED storeVars

\* navigate('/forms') after the last storage call: the editor unmounts
SaveDone ==
    /\ EdReset
    /\ UNCHANGED clock

\* variant: a saveForm that keeps the form row of a failed attempt and
\* goes on to the questions with it
CreateInsertFormOnce ==
    /\ edPage = "create" /\ edPc = "insertForm"
    /\ \/ /\ nextFormId <= MaxFormId
          /\ forms' = IF edNewFormId # 0 THEN forms
                      ELSE forms \cup {[id |-> nextFormId, user_id |-> Owner,
                                        title |-> Trim(edForm.title),
                                        is_active |-> edForm.is_active]}
          /\ nextFormId' = IF edNewFormId # 0 THEN nextFormId ELSE nextFormId + 1
          /\ edNewFormId' = IF edNewFormId # 0 THEN edNewFormId ELSE nextFormId
          /\ edPc' = "insertQuestions"
          /\ UNCHANGED <<edPage, edForm, edQuestions, edSaving, edError, clock>>
          /\ UNCHANGED <<questions, responses, answers, nextQuestionId, nextResponseId>>
       \/ SaveFails
    /\ UNCHANGED <<pubVars, anaVars>>

\* CreateForm.saveForm: the insert of the form row
CreateInsertForm ==
    /\ edPage = "create" /\ edPc = "insertForm"
    /\ \/ /\ nextFormId <= MaxFormId
          /\ forms' = forms \cup {[id |-> nextFormId, user_id |-> Owner,
                                   title |-> Trim(edForm.title),
                                   is_active |-> edForm.is_active]}
          /\ nextFormId' = nextFormId + 1
          /\ edNewFormId' = nextFormId
          /\ edPc' = "insertQuestions"
          /\ UNCHANGED <<edPage, edForm, edQuestions, edSaving, edError, clock>>
          /\ UNCHANGED <<questions, responses, answers, nextQuestionId, nextResponseId>>
       \/ SaveFails
    /\ UNCHANGED <<pubVars, anaVars>>

\* CreateForm.saveForm: the bulk insert of the questions, then navigate
CreateInsertQuestions ==
    /\ edPage = "create" /\ edPc = "insertQuestions"
    /\ \/ /\ nextQuestionId + Len(edQuestions) - 1 <= MaxQuestionId
          /\ FormById(edNewFormId) # {}
          /\ questions' = questions \cup
                          WithIds(CreateQuestionsToInsert(edNewFormId, edQuestions), nextQuestionId)
          /\ nextQuestionId' = nextQuestionId + Len(edQuestions)
          /\ SaveDone
          /\ UNCHANGED <<forms, responses, answers, nextFormId, nextResponseId>>
       \/ SaveFails
    /\ UNCHANGED <<pubVars, anaVars>>

\* ----------------------------------------------------- EditForm: handlers
\* /forms/:formId/edit is opened: loadForm of EditForm
OpenEdit(formId) ==
    /\ edPage = "forms"
    /\ \E f \in FormById(formId) :
          /\ f.user_id = Owner
          /\ edForm' = [id |-> f.id, title |-> f.title, is_active |-> f.is_active]
    /\ \E rows \in OrderedByIndex(QuestionsOf(formId)) :
          edQuestions' = [i \in DOMAIN rows |-> AsDraft(rows[i])]
    /\ edPage' = "edit"
    /\ UNCHANGED <<edPc, edSaving, edError, edNewFormId, clock>>
    /\ UNCHANGED <<storeVars, pubVars, anaVars>>

EditSetTitle(title) == SetForm("edit", [edForm EXCEPT !.title = title])

EditSetActive(active) == SetForm("edit", [edForm EXCEPT !.is_active = active])

EditAddQuestion ==
    /\ Len(edQuestions) < MaxQuestions
    /\ SetQuestions("edit", EditAdd(edQuestions))

\* EditForm.updateQuestion(index, field, value) for the three fields the
\* page edits; index is 0-based
EditUpdateQuestion(index, field, value) ==
    /\ index + 1 \in DOMAIN edQuestions
    /\ SetQuestions("edit",
          [edQuestions EXCEPT ![index + 1] =
              CASE field = "question_text" -> [@ EXCEPT !.question_text = value]
                [] field = "question_type" -> [@ EXCEPT !.question_type = value]
                [] OTHER -> [@ EXCEPT !.is_required = value]])

EditRemoveQuestion(index) ==
    /\ index + 1 \in DOMAIN edQuestions
    /\ SetQuestions("edit", EditRemove(edQuestions, index))

\* EditForm.addOption(questionIndex), shown for a multiple_choice question
EditAddOption(index) ==
    /\ index + 1 \in DOMAIN edQuestions
    /\ edQuestions[index + 1].question_type = "multiple_choice"
    /\ Len(edQuestions[index + 1].options) < MaxOptions
    /\ SetQuestions("edit", [edQuestions EXCEPT ![index + 1].options = Append(@, Empty)])

\* EditForm.updateOption(questionIndex, optionIndex, value)
EditSetOption(index, optionIndex, value) ==
    /\ index + 1 \in DOMAIN edQuestions
    /\ edQuestions[index + 1].question_type = "multiple_choice"
    /\ optionIndex + 1 \in DOMAIN edQuestions[index + 1].options
    /\ SetQuestions("edit",
          [edQuestions EXCEPT ![index + 1].options[optionIndex + 1] = value])

\* EditForm.saveForm up to its first await; the button is disabled while saving
EditSaveForm ==
    /\ Editing("edit") /\ ~edSaving
    /\ LET next == SaveAfterValidation(EditValidation(edForm, edQuestions), "update")
       IN /\ edPc' = next.pc
          /\ edSaving' = next.saving
          /\ edError' = next.error
    /\ UNCHANGED <<edPage, edForm, edQuestions, edNewFormId, clock>>
    /\ UNCHANGED <<storeVars, pubVars, anaVars>>

\* EditForm.saveForm: the update of the form row
EditUpdateForm ==
    /\ edPage = "edit" /\ edPc = "update"
    /\ \/ /\ forms' = {IF f.id = edForm.id /\ f.user_id = Owner
                       THEN [f EXCEPT !.title = Trim(edForm.title),
                                      !.is_active = edForm.is_active]
                       ELSE f : f \in forms}
          /\ edPc' = "delete"
          /\ UNCHANGED <<edPage, edForm, edQuestions, edSaving, edError, edNewFormId, clock>>
          /\ UNCHANGED <<questions, responses, answers,
                         nextFormId, nextQuestionId, nextResponseId>>
       \/ SaveFails
    /\ UNCHANGED <<pubVars, anaVars>>

\* EditForm.saveForm: the delete of the form's questions (answers cascade)
EditDeleteQuestions ==
    /\ edPage = "edit" /\ edPc = "delete"
    /\ \/ /\ questions' = QuestionsAfterDelete(edForm.id)
          /\ answers' = AnswersAfterQuestionDelete(questions \ QuestionsAfterDelete(edForm.id))
          /\ edPc' = "insert"
          /\ UNCHANGED <<edPage, edForm, edQuestions, edSaving, edError, edNewFormId, clock>>
          /\ UNCHANGED <<forms, responses, nextFormId, nextQuestionId, nextResponseId>>
       \/ SaveFails
    /\ UNCHANGED <<pubVars, anaVars>>

\* EditForm.saveForm: the bulk insert of the question list, then navigate
EditInsertQuestions ==
    /\ edPage = "edit" /\ edPc = "insert"
    /\ \/ /\ nextQuestionId + Len(edQuestions) - 1 <= MaxQuestionId
          /\ FormById(edForm.id) # {}
          /\ questions' = questions \cup
                          WithIds(EditQuestionsToInsert(edForm.id, edQuestions), nextQuestionId)
          /\ nextQuestionId' = nextQuestionId + Len(edQuestions)
          /\ SaveDone
          /\ UNCHANGED <<forms, responses, answers, nextFormId, nextResponseId>>
       \/ SaveFails
    /\ UNCHANGED <<pubVars, anaVars>>

\* ------------------------------------------------------- dates and times
\* an instant is a number of hours; submitted_at and Date.now() are instants
HoursPerDay == 24

\* a browser in UTC, in a month of 30 days
Utc == [std |-> 0, change |-> 0, after |-> 0, monthDays |-> 30]

\* the offset of local time from UTC at the instant t: cal.std before the
\* instant cal.change, cal.after from then on (a daylight-saving change;
\* none when the two are equal)
OffsetAt(cal, t) == IF t < cal.change THEN cal.std ELSE cal.after

\* the local time of an instant, as hours
LocalTime(cal, t) == t + OffsetAt(cal, t)

\* the instant of a local time: the offset in force at that local time;
\* a local time that the change skips is read with the offset before it
FromLocalTime(cal, local) ==
    IF local - cal.std < cal.change THEN local - cal.std
    ELSE IF local - cal.after >= cal.change THEN local - cal.after
    ELSE local - cal.std

\* date.setDate(date.getDate() - n): the same local clock time n days back
SetDateBack(cal, t, n) == FromLocalTime(cal, LocalTime(cal, t) - n * HoursPerDay)

\* date.setMonth(date.getMonth() - 1): the same local clock time and day
\* of month one month back
SetMonthBack(cal, t) ==
    FromLocalTime(cal, LocalTime(cal, t) - cal.monthDays * HoursPerDay)

\* toISOString().split('T')[0]: the UTC date of an instant, as a day number
IsoDate(t) == t \div HoursPerDay

\* submitted_at.startsWith(date), submitted_at being a UTC ISO string
StartsWithDate(submitted_at, date) == IsoDate(submitted_at) = date

\* ------------------------------------------------- the owner's reports
NoStats == [totalResponses |-> 0, avgRating |-> 0]
NoWeekStats == [totalResponses |-> 0, thisWeek |-> 0, avgRating |-> 0]
NoTop == [title |-> Empty, responses |-> -1]
NoDashboardStats ==
    [totalForms |-> 0, totalResponses |-> 0, thisMonth |-> 0,
     avgResponsesPerForm |-> 0, activeFormsCount |-> 0, topPerformingForm |-> NoTop]
NoCsv == << >>

\* no report page is mounted: the initial useState values
FrClosed ==
    /\ frPc = "closed" /\ frFormId = 0 /\ frForm = NoForm /\ frResponses = << >>
    /\ frStats = NoStats /\ frError = NoError /\ frCsv = NoCsv

RsClosed ==
    /\ rsPc = "closed" /\ rsForms = << >> /\ rsResponses = << >>
    /\ rsStats = NoWeekStats /\ rsError = NoError /\ rsCsv = NoCsv

DbClosed ==
    /\ dbPc = "closed" /\ dbRecentForms = << >> /\ dbAllForms = << >>
    /\ dbStats = NoDashboardStats /\ dbTrend = << >>

AnaClosed == calendar = Utc /\ FrClosed /\ RsClosed /\ DbClosed

\* ------------------------------------------------------------ initial state
\* empty tables, the owner on the forms list, no public page open
Init ==
    /\ forms = {} /\ questions = {} /\ responses = {} /\ answers = {}
    /\ nextFormId = 1 /\ nextQuestionId = 1 /\ nextResponseId = 1
    /\ clock = 0
    /\ EdClosed
    /\ PubClosed
    /\ AnaClosed

\* -------------------------------------------- the editors' question lists
\* the draft of n questions that n calls of addQuestion and the typing of a
\* text into each leave in the create editor
RECURSIVE TypedDraft(_)
TypedDraft(n) ==
    IF n = 0 THEN << >>
    ELSE LET qs == CreateAdd(TypedDraft(n - 1), n)
         IN [qs EXCEPT ![n].question_text = <<"a">>]

\* one form of the owner, stored by the create path from a draft of n
\* questions; the owner is on the forms list
InitDraft ==
    /\ \E n \in 0..MaxQuestions :
          /\ questions = WithIds(CreateQuestionsToInsert(1, TypedDraft(n)), 1)
          /\ nextQuestionId = n + 1
    /\ forms = {[id |-> 1, user_id |-> Owner, title |-> <<"a">>, is_active |-> TRUE]}
    /\ responses = {} /\ answers = {}
    /\ nextFormId = 2 /\ nextResponseId = 1
    /\ clock = 0
    /\ EdClosed
    /\ PubClosed
    /\ AnaClosed

\* the calls that change which questions a draft holds and where
NextDraft ==
    \/ Tick
    \/ OpenCreate
    \/ LeaveEditor
    \/ CreateAddQuestion
    \/ \E i \in 1..MaxQuestions : CreateDeleteQuestion(i)
    \/ \E i \in 1..MaxQuestions, d \in {"up", "down"} : CreateMoveQuestion(i, d)
    \/ OpenEdit(1)
    \/ EditAddQuestion
    \/ \E i \in 0..(MaxQuestions - 1) : EditRemoveQuestion(i)

SpecDraft == InitDraft /\ [][NextDraft]_vars

SampleOptions == << <<" ", "b">>, <<"c">> >>

\* a question of the create editor with its text typed, its type chosen,
\* its options typed and its required switch set
SampleQuestion(type, required) ==
    Draft(0, <<"a">>, type,
          IF type = "multiple_choice" THEN SampleOptions ELSE << >>, required, 0)

\* the drafts of n such questions, with the ids and the order_index that
\* addQuestion gives
SampleDrafts(n) ==
    {[i \in 1..n |-> [qs[i] EXCEPT !.id = i, !.order_index = i - 1]] :
        qs \in [1..n -> {SampleQuestion(t, r) : t \in QuestionTypes, r \in BOOLEAN}]}

\* one active form of the owner, stored by the create path from one of the
\* drafts; nobody has opened it yet
InitSubmit ==
    /\ \E n \in 0..MaxQuestions : \E draft \in SampleDrafts(n) :
          /\ questions = WithIds(CreateQuestionsToInsert(1, draft), 1)
          /\ nextQuestionId = n + 1
    /\ forms = {[id |-> 1, user_id |-> Owner, title |-> <<"a">>, is_active |-> TRUE]}
    /\ responses = {} /\ answers = {}
    /\ nextFormId = 2 /\ nextResponseId = 1
    /\ clock = 0
    /\ EdClosed
    /\ PubClosed
    /\ AnaClosed

\* what a respondent types into a text question, and the rating buttons
\* pressed, in SpecSubmit
TypedAnswers == {Empty, <<" ">>, <<" ", "a">>}
PressedRatings == {1, 5}

\* everything a control of the loaded form is made to emit
EmittedValues ==
    TypedAnswers \cup {RatingToString(n) : n \in PressedRatings}
        \cup UNION {Range(pubQuestions[i].options) : i \in DOMAIN pubQuestions}

Submit == SubmitForm \/ SubmitInsertResponse \/ SubmitInsertAnswers

\* one respondent on one page: load, answer, submit, retry
NextSubmit ==
    \/ PubOpen("anon", 1)
    \/ PubLoadForm
    \/ PubLoadQuestions
    \/ \E i \in DOMAIN pubQuestions, v \in EmittedValues :
          HandleAnswerChange(pubQuestions[i].id, v)
    \/ Submit

SpecSubmit == InitSubmit /\ [][NextSubmit]_vars

\* the rule of the specification for one question: a required question
\* has an answer, and a required text question one that is not blank
C3_Satisfied(q, ans) ==
    q.is_required =>
        /\ AnswerOf(ans, q.id) # Empty
        /\ q.question_type = "text" => Trim(AnswerOf(ans, q.id)) # Empty

\* the 1-indexed positions of the violating questions, ascending
C3_Violations(qs, ans) ==
    SelectSeq([i \in DOMAIN qs |-> i], LAMBDA i : ~C3_Satisfied(qs[i], ans))

\* C3: submitForm goes on to the insert exactly when every required
\* question is answered (a required text question with a non-blank
\* answer); otherwise it stops with one message that lists all violating
\* questions by position, ascending
C3_ValidateSubmission ==
    [][SubmitForm =>
         IF C3_Violations(pubQuestions, pubAnswers) = << >>
         THEN pubPc' = "insertResponse" /\ pubError' = NoError
         ELSE /\ pubPc' = "ready"
              /\ pubError'.numbers = C3_Violations(pubQuestions, pubAnswers)
              /\ pubError'.msg # ""]_vars

\* C3 witness: a rejection that reports two questions at once
C3_Witness == pubPc = "ready" /\ pubError.numbers = <<1, 2>>

\* the type of the question an entry of the answer map belongs to
C4_TypeOf(qs, qid) ==
    IF \E i \in DOMAIN qs : qs[i].id = qid
    THEN (CHOOSE q \in Range(qs) : q.id = qid).question_type
    ELSE "none"

\* the rows the specification's filtering rule lets through
C4_Expected(qs, ans, responseId) ==
    {[response_id |-> responseId, question_id |-> k, answer_text |-> Trim(ans[k])] :
        k \in {k \in DOMAIN ans :
                 /\ ans[k] # Empty
                 /\ C4_TypeOf(qs, k) = "text" => Trim(ans[k]) # Empty}}

\* C4: the answer rows a submission stores are exactly the rows of the
\* filtering rule, one per question id, and no insert of answers is issued
\* when the rule lets nothing through
C4_Assembler ==
    [][/\ answers' # answers =>
            /\ answers' \ answers = C4_Expected(pubQuestions, pubAnswers, pubResponseId)
            /\ \A a, b \in answers' :
                  a.response_id = b.response_id /\ a.question_id = b.question_id => a = b
       /\ responses' # responses =>
            (pubPc' = "insertAnswers"
                <=> C4_Expected(pubQuestions, pubAnswers, pubResponseId') # {})]_vars

\* C4 witness: a stored submission with a trimmed text answer, another
\* entry of the answer map having produced no row
C4_Witness ==
    /\ pubSubmitted
    /\ \E a \in answers : pubAnswers[a.question_id] # a.answer_text
    /\ \E k \in DOMAIN pubAnswers : \A a \in answers : a.question_id # k

\* the stored answers of a response, as an answer map
StoredAnswers(responseId) ==
    [k \in {a.question_id : a \in {b \in answers : b.response_id = responseId}} |->
        (CHOOSE a \in answers : a.response_id = responseId /\ a.question_id = k).answer_text]

\* C5: the stored answers of an accepted submission are accepted again by
\* validateForm against the same question list
C5_RoundTrip ==
    pubSubmitted => ValidateForm(pubQuestions, StoredAnswers(pubResponseId)) = NoError

\* C5 witness: a stored submission whose required text answer was changed
\* by the trimming, beside a required question of another type
C5_Witness ==
    /\ pubSubmitted
    /\ \E i \in DOMAIN pubQuestions :
          /\ pubQuestions[i].is_required /\ pubQuestions[i].question_type = "text"
          /\ pubAnswers[pubQuestions[i].id] # Trim(pubAnswers[pubQuestions[i].id])
    /\ \E i \in DOMAIN pubQuestions :
          pubQuestions[i].is_required /\ pubQuestions[i].question_type # "text"

\* C6: every stored answer text is non-empty and trimmed, and the rows of
\* the page's submission belong to questions that received a value that
\* is not empty and not blank
C6_StoredAnswers ==
    /\ \A a \in answers : a.answer_text # Empty /\ Trim(a.answer_text) = a.answer_text
    /\ pubSubmitted =>
          \A a \in answers :
              /\ AnswerOf(pubAnswers, a.question_id) # Empty
              /\ Trim(AnswerOf(pubAnswers, a.question_id)) # Empty

\* C6 witness: a stored submission with a row, while an optional question
\* was skipped and another value was blank
C6_Witness ==
    /\ pubSubmitted /\ answers # {}
    /\ \E i \in DOMAIN pubQuestions :
          pubQuestions[i].id \notin DOMAIN pubAnswers
             \/ Trim(pubAnswers[pubQuestions[i].id]) = Empty

\* ------------------------------------------------------------ the two saves
\* the question text and the option lists the owner typed in the create editor
SaveTexts == {<<" ", "a">>}
SaveOptions == {<< >>, << <<"b">> >>}

\* the questions the create editor can hold: a text question has no
\* options (the type select clears them), a rating question may keep the
\* options it had as a multiple_choice question
SaveQuestions ==
    {q \in {Draft(0, text, type, options, TRUE, 0) :
                text \in SaveTexts, type \in QuestionTypes, options \in SaveOptions} :
        q.question_type = "text" => q.options = << >>}

\* the drafts of n such questions, with the ids and the order_index that
\* addQuestion gives
SaveDrafts(n) ==
    {[i \in 1..n |-> [qs[i] EXCEPT !.id = i, !.order_index = i - 1]] :
        qs \in [1..n -> SaveQuestions]}

\* the create editor holds a titled draft; nothing is stored yet
InitSave ==
    /\ forms = {} /\ questions = {} /\ responses = {} /\ answers = {}
    /\ nextFormId = 1 /\ nextQuestionId = 1 /\ nextResponseId = 1
    /\ clock = MaxQuestions
    /\ edPage = "create"
    /\ edForm = [id |-> 0, title |-> <<" ", "a">>, is_active |-> TRUE]
    /\ \E n \in 1..MaxQuestions : edQuestions \in SaveDrafts(n)
    /\ edPc = "idle" /\ edSaving = FALSE /\ edError = NoError /\ edNewFormId = 0
    /\ PubClosed
    /\ AnaClosed

CreateSave == CreateSaveForm \/ CreateInsertForm \/ CreateInsertQuestions

EditSave == EditSaveForm \/ EditUpdateForm \/ EditDeleteQuestions \/ EditInsertQuestions

\* the owner saves the draft, reopens the form in the edit page, changes
\* it and saves again; every storage call can fail
NextSave ==
    \/ CreateSave
    \/ LeaveEditor
    \/ \E f \in 1..MaxFormId : OpenEdit(f)
    \/ \E i \in 0..(MaxQuestions - 1), t \in QuestionTypes :
          EditUpdateQuestion(i, "question_type", t)
    \/ \E i \in 0..(MaxQuestions - 1) : EditAddOption(i)
    \/ \E i \in 0..(MaxQuestions - 1) : EditRemoveQuestion(i)
    \/ EditSave

SpecSave == InitSave /\ [][NextSave]_vars

\* the multiple_choice questions of a draft with fewer than two options
\* that are non-empty after trimming, by position
C7_FewOptions(qs) ==
    {i \in DOMAIN qs : /\ qs[i].question_type = "multiple_choice"
                       /\ Len(NonBlank(qs[i].options)) < 2}

\* C7: the edit path stops a save whenever some multiple_choice question
\* has fewer than two options that are non-empty after trimming, and, the
\* title and all question texts being in order, with the options error of
\* the first such question
C7_EditRejectsFewOptions ==
    [][(EditSaveForm /\ C7_FewOptions(edQuestions) # {}) =>
         /\ edPc' = "idle"
         /\ (Truthy(Trim(edForm.title))
               /\ \A i \in DOMAIN edQuestions : Truthy(Trim(edQuestions[i].question_text)))
            => edError' = Err("Question must have at least 2 options",
                              <<CHOOSE i \in C7_FewOptions(edQuestions) :
                                   \A j \in C7_FewOptions(edQuestions) : i <= j>>)]_vars

\* C8: a stored question of type text or rating has no options
C8_NoOptionsUnlessChoice ==
    \A q \in questions : q.question_type # "multiple_choice" => q.options = << >>

\* C9: when the insert of an edit-save succeeds, the stored questions of
\* the form are the edited list, row for row in list order with
\* order_index 0..N-1 and trimmed text, and no row has the id of a
\* question that was stored before
C9_EditReplaces ==
    [][(edPage = "edit" /\ edPc = "insert" /\ edPage' = "forms") =>
         LET stored == {q \in questions' : q.form_id = edForm.id}
         IN /\ Cardinality(stored) = Len(edQuestions)
            /\ \A i \in DOMAIN edQuestions : \E q \in stored :
                  /\ q.order_index = i - 1
                  /\ q.question_text = Trim(edQuestions[i].question_text)
                  /\ q.question_type = edQuestions[i].question_type
                  /\ q.is_required = edQuestions[i].is_required
            /\ \A q \in stored :
                  /\ q.id >= nextQuestionId
                  /\ \A i \in DOMAIN edQuestions : q.id # edQuestions[i].id]_vars

\* C9 witness: the edit page is closed by a successful save that replaced
\* the two stored questions of the form (ids 1 and 2) by the one the owner
\* kept (stored with id 3, order_index 0 and trimmed text)
C9_Witness ==
    /\ edPage = "forms"
    /\ {q.id : q \in QuestionsOf(1)} = {3}
    /\ \E q \in QuestionsOf(1) : q.order_index = 0 /\ q.question_text = <<"a">>

\* ------------------------------------------------------- the whole system
\* what the owner types as a title or a question text, and what a
\* respondent types as an answer, in Spec
TypedTitle == <<"a", " ">>
TypedText == <<"a">>

\* the owner builds a form of one question in the create page, saves it
\* (again after a failed insert), reopens a form in the edit page, toggles
\* the active flag, removes the question and saves, while anonymous
\* visitors open the public page of a form, answer and submit; every
\* storage call can fail
Next ==
    \/ OpenCreate /\ forms = {}
    \/ LeaveEditor
    \/ CreateSetTitle(TypedTitle)
    \/ CreateAddQuestion /\ edQuestions = << >>
    \/ CreateSetText(1, TypedText)
    \/ CreateSave
    \/ \E f \in 1..MaxFormId : OpenEdit(f)
    \/ \E b \in BOOLEAN : EditSetActive(b)
    \/ EditRemoveQuestion(0)
    \/ EditSave
    \/ \E f \in 1..MaxFormId : PubOpen("anon", f)
    \/ PubClose
    \/ PubLoadForm
    \/ PubLoadQuestions
    \/ \E i \in DOMAIN pubQuestions : HandleAnswerChange(pubQuestions[i].id, TypedText)
    \/ Submit

Spec == Init /\ [][Next]_vars

\* C2: a save of the create page or of the edit page, or a submission of
\* the public page, that fails its validation leaves the four tables as
\* they are, awaits no storage call and sets the error message
C2_NoStorageOnInvalid ==
    [][/\ (CreateSaveForm /\ CreateValidation(edForm, edQuestions) # NoError) =>
             /\ UNCHANGED storeVars
             /\ edPc' = "idle" /\ ~edSaving'
             /\ edError' = CreateValidation(edForm, edQuestions)
       /\ (EditSaveForm /\ EditValidation(edForm, edQuestions) # NoError) =>
             /\ UNCHANGED storeVars
             /\ edPc' = "idle" /\ ~edSaving'
             /\ edError' = EditValidation(edForm, edQuestions)
       /\ (SubmitForm /\ ValidateForm(pubQuestions, pubAnswers) # NoError) =>
             /\ UNCHANGED storeVars
             /\ pubPc' = "ready" /\ ~pubSubmitting'
             /\ pubError' = ValidateForm(pubQuestions, pubAnswers)]_vars

\* C2 witness: over a store that holds a form, a submission was refused for
\* a missing answer while a save was refused by the editor's validation
C2_Witness ==
    /\ forms # {} /\ questions # {}
    /\ pubPc = "ready" /\ pubError.numbers = <<1>>
    /\ edPc = "idle" /\ edPage \in {"create", "edit"}
    /\ edError \in {Err("All questions must have text", << >>),
                    Err("At least one question is required", << >>)}

\* C10: the public page goes on from the select of the form only with a
\* stored form that is active at that moment, and a response row is
\* inserted only for a form that is active at the moment of the insert
C10_ActiveOnly ==
    [][/\ (pubPc = "loadForm" /\ pubPc' = "loadQuestions") =>
             \E f \in FormById(pubFormId) : f.is_active /\ pubForm' = f
       /\ \A r \in responses' \ responses :
             \E f \in FormById(r.form_id) : f.is_active]_vars

\* C10 witness: a page loaded while the form was active holds a submission
\* refused after the owner made the form inactive, a response of an earlier
\* page being stored
C10_Witness ==
    /\ pubPc = "ready" /\ pubRole = "anon" /\ pubForm.is_active
    /\ pubError = SubmitErrorMessage("rls")
    /\ \E f \in FormById(pubFormId) : ~f.is_active
    /\ \E r \in responses : r.form_id = pubFormId

\* ------------------------------------------------- who may be a respondent
\* the visitors of the public page: not signed in, the signed-in owner,
\* another signed-in user
Visitors == {"anon", Owner, "other"}

\* one visitor on the public page of the stored form: load, answer,
\* submit, retry
NextRoles ==
    \/ \E role \in Visitors : PubOpen(role, 1)
    \/ PubLoadForm
    \/ PubLoadQuestions
    \/ \E i \in DOMAIN pubQuestions, v \in EmittedValues :
          HandleAnswerChange(pubQuestions[i].id, v)
    \/ Submit

SpecRoles == InitSubmit /\ [][NextRoles]_vars

\* C11: while the form is active no visitor is turned away for who they
\* are: the page never answers that the form is not found or not active,
\* and a submission is never refused by row-level security
C11_AnyRespondent ==
    (\E f \in FormById(pubFormId) : f.is_active) =>
        /\ pubError # Err("Form not found or is no longer active", << >>)
        /\ pubError # SubmitErrorMessage("rls")

\* ------------------------------------------------ the submitted state
\* C12: the page becomes submitted only in a step after which the response
\* row of the attempt and every assembled answer row are stored and no
\* error is shown; once submitted, it stays submitted and the page adds no
\* response row and no answer row
C12_SubmittedTerminal ==
    [][/\ (~pubSubmitted /\ pubSubmitted') =>
             /\ \E r \in responses' : r.id = pubResponseId' /\ r.form_id = pubFormId
             /\ Range(AnswersToInsert(pubQuestions, pubAnswers, pubResponseId'))
                   \subseteq answers'
             /\ pubError' = NoError /\ ~pubSubmitting'
       /\ pubSubmitted =>
             /\ pubSubmitted'
             /\ responses' = responses /\ answers' = answers]_vars

\* C12 witness: a submitted page whose second attempt stored the response
\* row and two answer rows
C12_Witness ==
    /\ pubSubmitted /\ pubPc = "ready" /\ pubResponseId = 2
    /\ Cardinality({a \in answers : a.response_id = 2}) = 2

\* C13: a step in which the response insert of an attempt succeeds adds
\* exactly one response row, with an id no stored row has, and the rows
\* that were stored stay; no other step changes the responses
C13_NoDeduplication ==
    [][IF pubPc = "insertResponse" /\ (pubPc' = "insertAnswers" \/ pubSubmitted')
       THEN /\ responses \subseteq responses'
            /\ Cardinality(responses') = Cardinality(responses) + 1
            /\ \A r \in responses' \ responses :
                  r.form_id = pubFormId /\ \A old \in responses : old.id # r.id
       ELSE responses' = responses]_vars

\* C13 witness: after the answers insert of the first attempt failed, the
\* retry stored a second response with its answers, and the first response
\* is stored without answers
C13_Witness ==
    /\ pubSubmitted /\ Cardinality(responses) = 2
    /\ \E r \in responses : \A a \in answers : a.response_id # r.id
    /\ \E a \in answers : a.response_id = pubResponseId

\* ------------------------------------------------ reading the owner's data
\* the rows of a select in any order the backend may return them
AnyOrder(rows) ==
    {s \in [1..Cardinality(rows) -> rows] :
        \A i, j \in DOMAIN s : i < j => s[i] # s[j]}

\* .order('submitted_at', { ascending: false })
NewestFirst(rows) ==
    {s \in AnyOrder(rows) :
        \A i, j \in DOMAIN s : i < j => s[i].submitted_at >= s[j].submitted_at}

\* answers(answer_text, questions(question_text, question_type, order_index))
\* embedded in a response row
EmbeddedAnswers(responseId) ==
    {[answer_text |-> a.answer_text,
      questions |-> [question_text |-> q.question_text,
                     question_type |-> q.question_type,
                     order_index |-> q.order_index]] :
        <<a, q>> \in {p \in answers \X questions :
                         /\ p[1].response_id = responseId
                         /\ p[1].question_id = p[2].id}}

\* the embedded answers of each of the given responses, in any order
EmbeddingsOf(rows) ==
    {emb \in [{r.id : r \in rows} ->
                 UNION {AnyOrder(EmbeddedAnswers(r.id)) : r \in rows}] :
        \A r \in rows : emb[r.id] \in AnyOrder(EmbeddedAnswers(r.id))}

RECURSIVE Concat(_)
Concat(seqs) == IF seqs = << >> THEN << >> ELSE Head(seqs) \o Concat(Tail(seqs))

RECURSIVE Sum(_)
Sum(numbers) == IF numbers = << >> THEN 0 ELSE Head(numbers) + Sum(Tail(numbers))

\* ------------------------------------------------------------- parseInt
DecimalDigits == <<"0", "1", "2", "3", "4", "5", "6", "7", "8", "9">>

DigitValue(c) == (CHOOSE i \in DOMAIN DecimalDigits : DecimalDigits[i] = c) - 1

\* the longest prefix of s made of decimal digits
RECURSIVE DigitPrefix(_)
DigitPrefix(s) ==
    IF s # << >> /\ Head(s) \in Range(DecimalDigits)
    THEN <<Head(s)>> \o DigitPrefix(Tail(s))
    ELSE << >>

RECURSIVE NumberOf(_)
NumberOf(digits) ==
    IF digits = << >> THEN 0
    ELSE 10 * NumberOf(SubSeq(digits, 1, Len(digits) - 1))
            + DigitValue(digits[Len(digits)])

\* parseInt(s) followed by the !isNaN filter: << >> for NaN, else <<n>>.
\* Leading white space is skipped, a sign is read, then the digits up to the
\* first other character; the rest of the string is ignored (radix 10).
ParseInt(s) ==
    LET t == TrimStart(s)
        signed == t # << >> /\ Head(t) \in {"-", "+"}
        body == IF signed THEN Tail(t) ELSE t
        digits == DigitPrefix(body)
    IN IF digits = << >> THEN << >>
       ELSE IF signed /\ Head(t) = "-" THEN <<0 - NumberOf(digits)>>
       ELSE <<NumberOf(digits)>>

\* Math.round(sum / n * 10) / 10, kept in tenths: 3.0 is 30. Math.round
\* rounds a half upwards.
RoundedAverage(numbers) ==
    IF Len(numbers) > 0
    THEN (20 * Sum(numbers) + Len(numbers)) \div (2 * Len(numbers))
    ELSE 0

\* ------------------------------------------- FormResponses (per-form page)
\* transformedResponses of loadFormAndResponses
FrTransform(rows, emb) ==
    [i \in DOMAIN rows |->
        [id |-> rows[i].id,
         submitted_at |-> rows[i].submitted_at,
         answers |->
            SortByIndex([k \in DOMAIN emb[rows[i].id] |->
                [question_text |-> emb[rows[i].id][k].questions.question_text,
                 question_type |-> emb[rows[i].id][k].questions.question_type,
                 answer_text |-> emb[rows[i].id][k].answer_text,
                 order_index |-> emb[rows[i].id][k].questions.order_index]])]]

\* ratingAnswers of one response
FrRatingsOf(as) ==
    Concat([k \in DOMAIN as |->
               IF as[k].question_type = "rating"
               THEN ParseInt(as[k].answer_text) ELSE << >>])

\* ratingAnswers of loadFormAndResponses
FrRatingAnswers(rs) == Concat([i \in DOMAIN rs |-> FrRatingsOf(rs[i].answers)])

\* the stats of loadFormAndResponses
FrStatsOf(rs) ==
    [totalResponses |-> Len(rs), avgRating |-> RoundedAverage(FrRatingAnswers(rs))]

\* answer_text.replace(/"/g, '""')
RECURSIVE EscapeQuotes(_)
EscapeQuotes(s) ==
    IF s = << >> THEN << >>
    ELSE IF Head(s) = "\"" THEN <<"\"", "\"">> \o EscapeQuotes(Tail(s))
    ELSE <<Head(s)>> \o EscapeQuotes(Tail(s))

\* `"${...}"`
Quoted(s) == <<"\"">> \o s \o <<"\"">>

\* Array.prototype.join
RECURSIVE Join(_, _)
Join(fields, sep) ==
    IF fields = << >> THEN << >>
    ELSE IF Len(fields) = 1 THEN fields[1]
    ELSE fields[1] \o sep \o Join(Tail(fields), sep)

\* new Date(submitted_at).toLocaleString(): the local time, as one token
ToLocaleString(cal, t) == <<ToString(LocalTime(cal, t))>>

\* csvHeaders of exportResponses
FrCsvHeaders(rs) ==
    <<<<"Response ID">>, <<"Submitted At">>, <<"IP Address">>>>
        \o [k \in DOMAIN rs[1].answers |-> rs[1].answers[k].question_text]

\* csvRows of exportResponses; ip_address is never set by the public page
FrCsvRows(cal, rs) ==
    [i \in DOMAIN rs |->
        <<<<ToString(rs[i].id)>>, ToLocaleString(cal, rs[i].submitted_at), <<"N/A">>>>
            \o [k \in DOMAIN rs[i].answers |->
                   Quoted(EscapeQuotes(rs[i].answers[k].answer_text))]]

\* csvContent of exportResponses
CsvContent(rows) == Join([i \in DOMAIN rows |-> Join(rows[i], <<",">>)], <<"\n">>)

\* the route /forms/:formId/responses is mounted; no other report is open
FrOpen(formId) ==
    /\ frPc = "closed" /\ rsPc = "closed" /\ dbPc = "closed"
    /\ frPc' = "loadForm"
    /\ frFormId' = formId
    /\ frError' = NoError
    /\ UNCHANGED <<frForm, frResponses, frStats, frCsv>>
    /\ UNCHANGED <<storeVars, edVars, pubVars, calendar, rsVars, dbVars>>

\* loadFormAndResponses: the select of the owner's form with .single()
FrLoadForm ==
    /\ frPc = "loadForm"
    /\ LET rows == {f \in FormById(frFormId) : f.user_id = Owner}
       IN \/ /\ rows # {}
             /\ frForm' \in rows
             /\ frPc' = "loadResponses"
             /\ UNCHANGED frError
          \/ /\ rows = {}
             /\ frError' = Err("Form not found or you do not have permission to view it", << >>)
             /\ frPc' = "done"
             /\ UNCHANGED frForm
          \/ /\ frError' = Err("Failed to load form", << >>)
             /\ frPc' = "done"
             /\ UNCHANGED frForm
    /\ UNCHANGED <<frFormId, frResponses, frStats, frCsv>>
    /\ UNCHANGED <<storeVars, edVars, pubVars, calendar, rsVars, dbVars>>

\* loadFormAndResponses: the select of the form's responses, then the stats
FrLoadResponses ==
    /\ frPc = "loadResponses"
    /\ LET rows == {r \in responses : r.form_id = frFormId}
       IN \/ \E ordered \in NewestFirst(rows), emb \in EmbeddingsOf(rows) :
                /\ frResponses' = FrTransform(ordered, emb)
                /\ frStats' = FrStatsOf(frResponses')
                /\ UNCHANGED frError
          \/ /\ frError' = Err("Failed to load responses", << >>)
             /\ UNCHANGED <<frResponses, frStats>>
    /\ frPc' = "done"
    /\ UNCHANGED <<frFormId, frForm, frCsv>>
    /\ UNCHANGED <<storeVars, edVars, pubVars, calendar, rsVars, dbVars>>

\* exportResponses, pressed on the loaded page
ExportResponses ==
    /\ frPc = "done" /\ frError = NoError
    /\ Len(frResponses) # 0
    /\ frCsv' = CsvContent(<<FrCsvHeaders(frResponses)>> \o FrCsvRows(calendar, frResponses))
    /\ UNCHANGED <<frPc, frFormId, frForm, frResponses, frStats, frError>>
    /\ UNCHANGED <<storeVars, edVars, pubVars, calendar, rsVars, dbVars>>

\* ------------------------------------------- Responses (all-forms page)
\* the keys of an object built by assignment, in insertion order
Keys(object) == [k \in DOMAIN object |-> object[k][1]]

\* object[key], << >> standing for undefined
ValueAt(object, key) ==
    IF \E k \in DOMAIN object : object[k][1] = key
    THEN <<object[CHOOSE k \in DOMAIN object : object[k][1] = key][2]>>
    ELSE << >>

\* acc[key] = value: an object is the sequence of its <<key, value>> pairs
Assign(object, key, value) ==
    IF \E k \in DOMAIN object : object[k][1] = key
    THEN [k \in DOMAIN object |->
             IF object[k][1] = key THEN <<key, value>> ELSE object[k]]
    ELSE Append(object, <<key, value>>)

\* response.answers.reduce((acc, answer) => { acc[question_text] = answer_text })
RECURSIVE RsAnswersObject(_)
RsAnswersObject(embedded) ==
    IF embedded = << >> THEN << >>
    ELSE LET last == embedded[Len(embedded)]
         IN Assign(RsAnswersObject(SubSeq(embedded, 1, Len(embedded) - 1)),
                   last.questions.question_text, last.answer_text)

\* transformedResponses of loadData; the embedded forms row is the form of
\* the response
RsTransform(rows, emb) ==
    [i \in DOMAIN rows |->
        [id |-> rows[i].id,
         formTitle |-> (CHOOSE f \in FormById(rows[i].form_id) : TRUE).title,
         formId |-> rows[i].form_id,
         submittedAt |-> rows[i].submitted_at,
         answers |-> RsAnswersObject(emb[rows[i].id])]]

\* thisWeekResponses of loadData: new Date(r.submittedAt) > oneWeekAgo
RsThisWeek(rs, cal, now) ==
    Cardinality({i \in DOMAIN rs : rs[i].submittedAt > SetDateBack(cal, now, 7)})

\* /^[1-5]$/.test(answer.toString())
IsRatingDigit(s) == Len(s) = 1 /\ s[1] \in Range(Digits)

\* Object.values(r.answers).filter(/^[1-5]$/).map(Number)
RsRatingsOf(object) ==
    Concat([k \in DOMAIN object |->
               IF IsRatingDigit(object[k][2]) THEN ParseInt(object[k][2]) ELSE << >>])

\* ratingAnswers of loadData
RsRatingAnswers(rs) == Concat([i \in DOMAIN rs |-> RsRatingsOf(rs[i].answers)])

\* the stats of loadData
RsStatsOf(rs, cal, now) ==
    [totalResponses |-> Len(rs),
     thisWeek |-> RsThisWeek(rs, cal, now),
     avgRating |-> RoundedAverage(RsRatingAnswers(rs))]

\* a Set after adding the given values in order
RECURSIVE Distinct(_)
Distinct(values) ==
    IF values = << >> THEN << >>
    ELSE LET front == Distinct(SubSeq(values, 1, Len(values) - 1))
         IN IF values[Len(values)] \in Range(front) THEN front
            ELSE Append(front, values[Len(values)])

\* allQuestions of exportToCSV
RsAllQuestions(rs) == Distinct(Concat([i \in DOMAIN rs |-> Keys(rs[i].answers)]))

\* response.answers[question] || ''
RsAnswerOrEmpty(object, question) ==
    IF ValueAt(object, question) # << >> /\ Truthy(ValueAt(object, question)[1])
    THEN ValueAt(object, question)[1] ELSE Empty

\* headers of exportToCSV
RsCsvHeaders(rs) == <<<<"Form Title">>, <<"Submitted At">>>> \o RsAllQuestions(rs)

\* the rows of exportToCSV: no character of a value is escaped
RsCsvRows(cal, rs) ==
    [i \in DOMAIN rs |->
        <<Quoted(rs[i].formTitle), ToLocaleString(cal, rs[i].submittedAt)>>
            \o [k \in DOMAIN RsAllQuestions(rs) |->
                   Quoted(RsAnswerOrEmpty(rs[i].answers, RsAllQuestions(rs)[k]))]]

\* the route /responses is mounted; no other report is open
RsOpen ==
    /\ frPc = "closed" /\ rsPc = "closed" /\ dbPc = "closed"
    /\ rsPc' = "loadForms"
    /\ rsError' = NoError
    /\ UNCHANGED <<rsForms, rsResponses, rsStats, rsCsv>>
    /\ UNCHANGED <<storeVars, edVars, pubVars, calendar, frVars, dbVars>>

\* loadData: the select of the owner's forms
RsLoadForms ==
    /\ rsPc = "loadForms"
    /\ \/ /\ rsForms' \in AnyOrder({[id |-> f.id, title |-> f.title] :
                                       f \in {g \in forms : g.user_id = Owner}})
          /\ rsPc' = "loadResponses"
          /\ UNCHANGED rsError
       \/ /\ rsError' = Err("Failed to load responses", << >>)
          /\ rsPc' = "done"
          /\ UNCHANGED rsForms
    /\ UNCHANGED <<rsResponses, rsStats, rsCsv>>
    /\ UNCHANGED <<storeVars, edVars, pubVars, calendar, frVars, dbVars>>

\* loadData: the select of the responses to the owner's forms, then the stats
RsLoadResponses ==
    /\ rsPc = "loadResponses"
    /\ LET rows == {r \in responses :
                       \E f \in FormById(r.form_id) : f.user_id = Owner}
       IN \/ \E ordered \in NewestFirst(rows), emb \in EmbeddingsOf(rows) :
                /\ rsResponses' = RsTransform(ordered, emb)
                /\ rsStats' = RsStatsOf(rsResponses', calendar, clock)
                /\ UNCHANGED rsError
          \/ /\ rsError' = Err("Failed to load responses", << >>)
             /\ UNCHANGED <<rsResponses, rsStats>>
    /\ rsPc' = "done"
    /\ UNCHANGED <<rsForms, rsCsv>>
    /\ UNCHANGED <<storeVars, edVars, pubVars, calendar, frVars, dbVars>>

\* exportToCSV, pressed on the loaded page
ExportToCSV ==
    /\ rsPc = "done"
    /\ Len(rsResponses) # 0
    /\ rsCsv' = CsvContent(<<RsCsvHeaders(rsResponses)>> \o RsCsvRows(calendar, rsResponses))
    /\ UNCHANGED <<rsPc, rsForms, rsResponses, rsStats, rsError>>
    /\ UNCHANGED <<storeVars, edVars, pubVars, calendar, frVars, dbVars>>

\* ------------------------------------------- stored forms with responses
\* answer texts found in the answers table: rating buttons, typed text, and
\* text posted to the REST endpoint, whose INSERT policy checks no content
ReportAnswers ==
    {<<"3">>, <<"5">>, <<"1">>, <<"b", "a", "d">>, <<"4", "x">>, <<"a", "\"">>}

MaxReportResponses == 2

\* the two optional questions of form 1, as the create path stores them
ReportQuestions(type1, type2) ==
    WithIds(CreateQuestionsToInsert(1,
                <<Draft(1, <<"p">>, type1, << >>, FALSE, 0),
                  Draft(2, <<"q">>, type2, << >>, FALSE, 1)>>), 1)

\* the answers of one response: to each question none or one
ReportAnswerSets(responseId) ==
    {{[response_id |-> responseId, question_id |-> q, answer_text |-> given[q]] :
          q \in {k \in 1..2 : given[k] # Empty}} :
        given \in [1..2 -> ReportAnswers \cup {Empty}]}

\* the owner's form 1 with its two questions and up to two responses, the
\* first stamped 0 and the second an hour or two later, and form 2 of another
\* user; it is now seven days and an hour after 0; no report is open
InitReports ==
    /\ forms = {[id |-> 1, user_id |-> Owner, title |-> <<"a">>, is_active |-> TRUE],
                [id |-> 2, user_id |-> "other", title |-> <<"b">>, is_active |-> TRUE]}
    /\ \E type1 \in {"text", "rating"} :
          questions = ReportQuestions(type1, "rating")
    /\ \E n \in 0..MaxReportResponses, later \in 1..2 :
          /\ responses = {[id |-> i, form_id |-> 1,
                           submitted_at |-> IF i = 1 THEN 0 ELSE later] : i \in 1..n}
          /\ \E given \in [1..n -> UNION {ReportAnswerSets(i) : i \in 1..n}] :
                /\ \A i \in 1..n : given[i] \in ReportAnswerSets(i)
                /\ answers = UNION {given[i] : i \in 1..n}
          /\ nextResponseId = n + 1
    /\ nextFormId = 3 /\ nextQuestionId = 3
    /\ clock = 7 * HoursPerDay + 1
    /\ EdClosed
    /\ PubClosed
    /\ AnaClosed

\* the owner opens either report and downloads its CSV
NextReports ==
    \/ \E formId \in 1..2 : FrOpen(formId)
    \/ FrLoadForm
    \/ FrLoadResponses
    \/ ExportResponses
    \/ RsOpen
    \/ RsLoadForms
    \/ RsLoadResponses
    \/ ExportToCSV

SpecReports == InitReports /\ [][NextReports]_vars

\* ---------------------------------------------------------------- C14
\* C14: in the per-form CSV export the header is the fixed metadata columns
\* followed by the form's question texts in order_index order, there is one
\* row per response, every row has as many fields as the header, and the
\* field under a question's column is that response's answer to that
\* question, or empty when the response did not answer it.
C14_PerFormCsv ==
    frCsv # NoCsv =>
        LET header == FrCsvHeaders(frResponses)
            rows == FrCsvRows(calendar, frResponses)
            qs == CHOOSE s \in OrderedByIndex(QuestionsOf(frFormId)) : TRUE
            given(i, k) == {a \in answers : /\ a.response_id = frResponses[i].id
                                            /\ a.question_id = qs[k].id}
        IN /\ frCsv = CsvContent(<<header>> \o rows)
           /\ header = <<<<"Response ID">>, <<"Submitted At">>, <<"IP Address">>>>
                          \o [k \in DOMAIN qs |-> qs[k].question_text]
           /\ Len(rows) = Cardinality({r \in responses : r.form_id = frFormId})
           /\ \A i \in DOMAIN rows : Len(rows[i]) = Len(header)
           /\ \A i \in DOMAIN rows : \A k \in DOMAIN qs :
                 rows[i][3 + k] \in
                    IF given(i, k) = {} THEN {Empty, Quoted(Empty)}
                    ELSE {Quoted(EscapeQuotes(a.answer_text)) : a \in given(i, k)}

\* ---------------------------------------------------------------- C15
\* a value wrapped in double quotes, each double quote inside it doubled
C15_Written(value) ==
    <<"\"">> \o Concat([k \in DOMAIN value |->
                           IF value[k] = "\"" THEN <<"\"", "\"">> ELSE <<value[k]>>])
            \o <<"\"">>

\* the column of the all-forms export that holds the given question
C15_Column(question) ==
    CHOOSE c \in DOMAIN RsCsvHeaders(rsResponses) :
        c > 2 /\ RsCsvHeaders(rsResponses)[c] = question

\* C15: in both CSV exports (per-form and all-forms) every answer value is
\* written wrapped in double quotes with each double quote inside the value
\* doubled.
C15_QuotedAnswers ==
    /\ frCsv # NoCsv =>
          \A i \in DOMAIN frResponses : \A k \in DOMAIN frResponses[i].answers :
             FrCsvRows(calendar, frResponses)[i][3 + k]
                = C15_Written(frResponses[i].answers[k].answer_text)
    /\ rsCsv # NoCsv =>
          \A i \in DOMAIN rsResponses :
             \A a \in {b \in answers : b.response_id = rsResponses[i].id} :
                \A q \in {p \in questions : p.id = a.question_id} :
                   RsCsvRows(calendar, rsResponses)[i][C15_Column(q.question_text)]
                      = C15_Written(a.answer_text)

\* ---------------------------------------------------------------- C16
\* the text is an integer: an optional sign and then digits only
C16_IsInteger(s) ==
    LET body == IF s # << >> /\ Head(s) \in {"-", "+"} THEN Tail(s) ELSE s
    IN body # << >> /\ \A k \in DOMAIN body : body[k] \in Range(DecimalDigits)

\* the stored answers to rating questions in responses of the form whose
\* text is an integer
C16_Ratings(formId) ==
    {a \in answers :
        /\ \E r \in responses : r.id = a.response_id /\ r.form_id = formId
        /\ \E q \in questions : q.id = a.question_id /\ q.question_type = "rating"
        /\ C16_IsInteger(a.answer_text)}

RECURSIVE C16_Total(_)
C16_Total(rows) ==
    IF rows = {} THEN 0
    ELSE LET a == CHOOSE b \in rows : TRUE
         IN ParseInt(a.answer_text)[1] + C16_Total(rows \ {a})

\* tenths is the mean of the rows rounded to one decimal place
C16_IsRoundedMean(tenths, rows) ==
    LET n == Cardinality(rows)
        diff == 10 * C16_Total(rows) - tenths * n
    IN IF n = 0 THEN tenths = 0
       ELSE 2 * diff <= n /\ 0 - 2 * diff <= n

C17_PerFormAverage(formId) ==
    LET rows == {r \in responses : r.form_id = formId}
        ordered == CHOOSE s \in NewestFirst(rows) : TRUE
        emb == CHOOSE e \in EmbeddingsOf(rows) : TRUE
    IN FrStatsOf(FrTransform(ordered, emb)).avgRating

\* C17: the global average rating of the all-forms page is computed over
\* exactly the answers to rating-type questions of the owner's responses, so
\* that for an owner with a single form it equals the per-form average
\* rating of that form.
C17_GlobalAverage ==
    (rsPc = "done" /\ rsError = NoError /\ Len(rsForms) = 1) =>
        rsStats.avgRating = C17_PerFormAverage(rsForms[1].id)

\* ------------------------------------------------------------- Dashboard
\* a forms row with its embedded responses(count): form.responses?.[0]?.count || 0
WithCount(f) ==
    [id |-> f.id, title |-> f.title, is_active |-> f.is_active,
     count |-> Cardinality({r \in responses : r.form_id = f.id})]

\* .order('created_at', { ascending: false }).limit(3): ids grow with time
DbRecent(rows) ==
    {SubSeq(s, 1, IF Len(s) < 3 THEN Len(s) ELSE 3) :
        s \in {t \in AnyOrder(rows) :
                  \A i, j \in DOMAIN t : i < j => t[i].id > t[j].id}}

\* variant: a later form with an equal count replaces the current top
DbTopLatest(allForms) ==
    IF allForms = << >> THEN NoTop
    ELSE LET greatest == CHOOSE i \in DOMAIN allForms :
                 /\ \A j \in DOMAIN allForms : allForms[j].count <= allForms[i].count
                 /\ \A j \in DOMAIN allForms :
                       allForms[j].count = allForms[i].count => j <= i
         IN [title |-> allForms[greatest].title, responses |-> allForms[greatest].count]

\* topPerformingForm of loadDashboardData: the reduce from null
RECURSIVE DbTopPerformingForm(_)
DbTopPerformingForm(allForms) ==
    IF allForms = << >> THEN NoTop
    ELSE LET top == DbTopPerformingForm(SubSeq(allForms, 1, Len(allForms) - 1))
             form == allForms[Len(allForms)]
         IN IF top = NoTop \/ form.count > top.responses
            THEN [title |-> form.title, responses |-> form.count]
            ELSE top

\* monthlyResponses: .gte('submitted_at', oneMonthAgo.toISOString())
\* .order('submitted_at') over the responses to the owner's forms
DbMonthlyResponses(cal, now) ==
    {s \in AnyOrder({r \in responses :
                        /\ \E f \in FormById(r.form_id) : f.user_id = Owner
                        /\ r.submitted_at >= SetMonthBack(cal, now)}) :
        \A i, j \in DOMAIN s : i < j => s[i].submitted_at <= s[j].submitted_at}

\* last7Days of loadDashboardData
Last7Days(cal, now) == [i \in 1..7 |-> IsoDate(SetDateBack(cal, now, 7 - i))]

\* trendData of loadDashboardData
TrendData(dates, monthly) ==
    [i \in DOMAIN dates |->
        [date |-> dates[i],
         count |-> Cardinality({k \in DOMAIN monthly :
                                   StartsWithDate(monthly[k].submitted_at, dates[i])})]]

\* the stats of loadDashboardData
DbStatsOf(allForms, monthly) ==
    [totalForms |-> Len(allForms),
     totalResponses |-> Sum([i \in DOMAIN allForms |-> allForms[i].count]),
     thisMonth |-> Len(monthly),
     avgResponsesPerForm |-> RoundedAverage([i \in DOMAIN allForms |-> allForms[i].count]),
     activeFormsCount |-> Cardinality({i \in DOMAIN allForms : allForms[i].is_active}),
     topPerformingForm |-> DbTopPerformingForm(allForms)]

\* the route /dashboard is mounted; no other report is open
DbOpen ==
    /\ frPc = "closed" /\ rsPc = "closed" /\ dbPc = "closed"
    /\ dbPc' = "loadRecent"
    /\ UNCHANGED <<dbRecentForms, dbAllForms, dbStats, dbTrend>>
    /\ UNCHANGED <<storeVars, edVars, pubVars, calendar, frVars, rsVars>>

\* loadDashboardData: the select of the three newest forms
DbLoadRecent ==
    /\ dbPc = "loadRecent"
    /\ \/ /\ dbRecentForms' \in
                DbRecent({WithCount(f) : f \in {g \in forms : g.user_id = Owner}})
          /\ dbPc' = "loadAllForms"
       \/ /\ dbPc' = "done"
          /\ UNCHANGED dbRecentForms
    /\ UNCHANGED <<dbAllForms, dbStats, dbTrend>>
    /\ UNCHANGED <<storeVars, edVars, pubVars, calendar, frVars, rsVars>>

\* loadDashboardData: the select of all the owner's forms, in no stated order
DbLoadAllForms ==
    /\ dbPc = "loadAllForms"
    /\ \/ /\ dbAllForms' \in
                AnyOrder({WithCount(f) : f \in {g \in forms : g.user_id = Owner}})
          /\ dbPc' = "loadMonthly"
       \/ /\ dbPc' = "done"
          /\ UNCHANGED dbAllForms
    /\ UNCHANGED <<dbRecentForms, dbStats, dbTrend>>
    /\ UNCHANGED <<storeVars, edVars, pubVars, calendar, frVars, rsVars>>

\* loadDashboardData: the select of the month's responses, the trend, setStats
DbLoadMonthly ==
    /\ dbPc = "loadMonthly"
    /\ \/ \E monthly \in DbMonthlyResponses(calendar, clock) :
             /\ dbTrend' = TrendData(Last7Days(calendar, clock), monthly)
             /\ dbStats' = DbStatsOf(dbAllForms, monthly)
       \/ UNCHANGED <<dbStats, dbTrend>>
    /\ dbPc' = "done"
    /\ UNCHANGED <<dbRecentForms, dbAllForms>>
    /\ UNCHANGED <<storeVars, edVars, pubVars, calendar, frVars, rsVars>>

\* ------------------------------------------- stored forms of the dashboard
MaxDashForms == 2
MaxDashResponses == 2

\* the browser's time zone: UTC, or one hour east of UTC until the start of
\* day 37 and two hours east from then on (summer time begins)
DashCalendars ==
    {Utc, [std |-> 1, change |-> 37 * HoursPerDay, after |-> 2, monthDays |-> 30]}

\* the time of the visit: 23:00 UTC of day 39, or 12:00 UTC of day 40
DashClocks == {40 * HoursPerDay - 1, 40 * HoursPerDay + 12}

\* submission times: an hour before the month window, at its start, a day
\* before the visit, and at the visit
DashTimes(cal, now) ==
    {SetMonthBack(cal, now) - 1, SetMonthBack(cal, now), now - HoursPerDay, now}

DashTitles == <<<<"a">>, <<"b">>, <<"d">>>>

\* up to two forms of the owner and a form of another user, with up to two
\* responses among them; no report is open
InitDashboard ==
    /\ \E cal \in DashCalendars, now \in DashClocks :
          /\ calendar = cal
          /\ clock = now
          /\ \E nf \in 0..MaxDashForms, active \in BOOLEAN, n \in 0..MaxDashResponses :
                /\ forms =
                      {[id |-> i, user_id |-> Owner, title |-> DashTitles[i],
                        is_active |-> (i = 1 => active)] : i \in 1..nf}
                      \cup {[id |-> MaxDashForms + 1, user_id |-> "other",
                             title |-> <<"c">>, is_active |-> TRUE]}
                /\ \E place \in [1..n -> ((1..nf) \cup {MaxDashForms + 1})
                                           \X DashTimes(cal, now)] :
                      responses = {[id |-> i, form_id |-> place[i][1],
                                    submitted_at |-> place[i][2]] : i \in 1..n}
                /\ nextResponseId = n + 1
    /\ questions = {} /\ answers = {}
    /\ nextFormId = MaxDashForms + 2 /\ nextQuestionId = 1
    /\ EdClosed
    /\ PubClosed
    /\ FrClosed /\ RsClosed /\ DbClosed

\* one visit of the dashboard
NextDashboard ==
    \/ DbOpen
    \/ DbLoadRecent
    \/ DbLoadAllForms
    \/ DbLoadMonthly

SpecDashboard == InitDashboard /\ [][NextDashboard]_vars

\* ---------------------------------------------------------------- C18
\* the responses to the owner's forms stamped at or after the given time
C18_Since(start) ==
    {r \in responses : /\ \E f \in FormById(r.form_id) : f.user_id = Owner
                       /\ r.submitted_at >= start}

\* C18: both windowed counts (the dashboard's 'This Month' and the analytics
\* page's 'This Week') count exactly the responses whose submission
\* timestamp is at or after the window start: a response stamped exactly at
\* the window start is counted, one stamped before it is not.
C18_WindowedCounts ==
    /\ (dbPc = "done" /\ dbTrend # << >>) =>
          dbStats.thisMonth = Cardinality(C18_Since(SetMonthBack(calendar, clock)))
    /\ (rsPc = "done" /\ rsError = NoError) =>
          rsStats.thisWeek = Cardinality(C18_Since(SetDateBack(calendar, clock, 7)))

\* ---------------------------------------------------------------- C19
\* the responses the dashboard has loaded: those to the owner's forms
\* stamped within the month window
C19_Loaded ==
    {r \in responses : /\ \E f \in FormById(r.form_id) : f.user_id = Owner
                       /\ r.submitted_at >= SetMonthBack(calendar, clock)}

\* C19: the 7-day trend consists of exactly 7 (date, count) entries for 7
\* consecutive calendar days in oldest-to-newest order, the last being the
\* reference day; each count is the number of loaded responses whose
\* submitted_at starts with that date.
C19_Trend ==
    (dbPc = "done" /\ dbTrend # << >>) =>
        /\ Len(dbTrend) = 7
        /\ \A i \in 1..6 : dbTrend[i + 1].date = dbTrend[i].date + 1
        /\ dbTrend[7].date = IsoDate(clock)
        /\ \A i \in 1..7 :
              dbTrend[i].count =
                 Cardinality({r \in C19_Loaded : IsoDate(r.submitted_at) = dbTrend[i].date})

\* ---------------------------------------------------------------- C20
\* the number of stored responses to the form
C20_Count(formId) == Cardinality({r \in responses : r.form_id = formId})

\* C20: topPerformingForm is absent when the owner has no forms; otherwise
\* it is a form whose response count is the maximum over the owner's forms,
\* and among forms tied at the maximum it is the first one in scan order.
C20_TopPerformingForm ==
    (dbPc = "done" /\ dbTrend # << >>) =>
        LET owned == {f \in forms : f.user_id = Owner}
            top == dbStats.topPerformingForm
        IN IF owned = {} THEN top = NoTop
           ELSE \E i \in DOMAIN dbAllForms :
                   /\ top = [title |-> dbAllForms[i].title,
                             responses |-> C20_Count(dbAllForms[i].id)]
                   /\ \A f \in owned : C20_Count(f.id) <= top.responses
                   /\ \A j \in DOMAIN dbAllForms :
                         j < i => C20_Count(dbAllForms[j].id) < top.responses

\* two forms of the owner with one response each were scanned, form 2
\* first, and form 2 is the top performing form
C20_Witness ==
    /\ dbPc = "done" /\ dbTrend # << >>
    /\ Len(dbAllForms) = 2
    /\ dbAllForms[1].id = 2
    /\ C20_Count(1) = 1 /\ C20_Count(2) = 1
    /\ dbStats.topPerformingForm = [title |-> DashTitles[2], responses |-> 1]

\* --------------------------------------------- the handlers called directly
MaxDraftLen == 3

\* what the owner types into a question text, in SpecList
ListTexts == {<<"a">>, <<"b">>}

\* the ids a create-page handler is called with: every id a draft question
\* can have, and one that no question has
ListIds == 0..(MaxClock + 1)

\* CreateForm.addQuestion, on drafts of up to MaxDraftLen questions
AddQuestionCall ==
    /\ Len(edQuestions) < MaxDraftLen
    /\ SetQuestions("create", CreateAdd(edQuestions, clock))

\* CreateForm.moveQuestion called with any id
MoveQuestion(questionId, direction) ==
    SetQuestions("create", CreateMove(edQuestions, questionId, direction))

\* CreateForm.deleteQuestion called with any id
DeleteQuestion(questionId) ==
    SetQuestions("create", CreateDelete(edQuestions, questionId))

\* EditForm.addQuestion, on drafts of up to MaxDraftLen questions
EditAddQuestionCall ==
    /\ Len(edQuestions) < MaxDraftLen
    /\ SetQuestions("edit", EditAdd(edQuestions))

\* EditForm.removeQuestion called with any index
RemoveQuestion(index) == SetQuestions("edit", EditRemove(edQuestions, index))

\* the owner builds and rearranges a draft in either editor
NextList ==
    \/ Tick
    \/ OpenCreate
    \/ LeaveEditor
    \/ AddQuestionCall
    \/ \E i \in 1..MaxDraftLen, text \in ListTexts : CreateSetText(i, text)
    \/ \E id \in ListIds, d \in {"up", "down"} : MoveQuestion(id, d)
    \/ \E id \in ListIds : DeleteQuestion(id)
    \/ OpenEdit(1)
    \/ EditAddQuestionCall
    \/ \E i \in 0..(MaxDraftLen - 1), text \in ListTexts :
          EditUpdateQuestion(i, "question_text", text)
    \/ \E i \in -1..MaxDraftLen : RemoveQuestion(i)

SpecList == InitDraft /\ [][NextList]_vars

\* ---------------------------------------------------------------- C21
\* what a draft question holds apart from its position number
C21_Content(q) ==
    [id |-> q.id, question_text |-> q.question_text,
     question_type |-> q.question_type, options |-> q.options,
     is_required |-> q.is_required]

\* the draft the create page holds after moveQuestion(questionId, direction)
C21_After(questionId, direction) ==
    SortByIndex(CreateMove(edQuestions, questionId, direction))

\* C21: moveQuestion exchanges the target question with its immediate
\* neighbour in the given direction and leaves the position and content of
\* every other question unchanged; called with direction up on the first
\* question, with direction down on the last question, or with an id that
\* matches no question, it leaves the whole list unchanged.
C21_MoveQuestion ==
    edPage = "create" =>
        \A questionId \in ListIds, direction \in {"up", "down"} :
            LET after == C21_After(questionId, direction)
                target == FindIndex(edQuestions, questionId) + 1
                neighbour == IF direction = "up" THEN target - 1 ELSE target + 1
            IN IF target = 0 \/ neighbour \notin DOMAIN edQuestions
               THEN after = edQuestions
               ELSE /\ Len(after) = Len(edQuestions)
                    /\ C21_Content(after[neighbour]) = C21_Content(edQuestions[target])
                    /\ C21_Content(after[target]) = C21_Content(edQuestions[neighbour])
                    /\ \A i \in DOMAIN edQuestions \ {target, neighbour} :
                          C21_Content(after[i]) = C21_Content(edQuestions[i])

\* ---------------------------------------------------------------- C22
\* list without its k-th element
C22_Without(list, k) == SubSeq(list, 1, k - 1) \o SubSeq(list, k + 1, Len(list))

\* the contents of the questions of a list, in list order
C22_Contents(list) == [i \in DOMAIN list |-> C21_Content(list[i])]

\* C22: removeQuestion removes exactly the one question that matches and
\* keeps all remaining questions, with their content, in their previous
\* relative order; when nothing matches (unknown id on the create path,
\* out-of-range index on the edit path) the list is unchanged.
C22_RemoveQuestion ==
    /\ edPage = "create" =>
          \A questionId \in ListIds :
             LET after == SortByIndex(CreateDelete(edQuestions, questionId))
                 target == FindIndex(edQuestions, questionId) + 1
             IN IF target = 0 THEN after = edQuestions
                ELSE C22_Contents(after) = C22_Without(C22_Contents(edQuestions), target)
    /\ edPage = "edit" =>
          \A index \in -1..MaxDraftLen :
             LET after == EditRemove(edQuestions, index)
             IN IF index + 1 \notin DOMAIN edQuestions THEN after = edQuestions
                ELSE C22_Contents(after) = C22_Without(C22_Contents(edQuestions), index + 1)

\* ---------------------------------------------------------------- C28
\* C28: in the create-form draft the question ids are pairwise distinct
\* after any sequence of addQuestion, deleteQuestion and moveQuestion calls,
\* whatever the clock values at which addQuestion is called.
C28_DistinctIds ==
    edPage = "create" =>
        \A i, j \in DOMAIN edQuestions : i # j => edQuestions[i].id # edQuestions[j].id

\* ------------------------------------------------- saves of invalid drafts
\* what the owner types as a title or a question text, in SpecValidate
ValidateTexts == {<<" ">>, <<"a">>}

\* CreateForm.saveForm called whatever the draft holds (the Save button is
\* disabled while the title is blank or the draft has no question)
CreateSaveFormCall ==
    /\ Editing("create") /\ ~edSaving
    /\ LET next == SaveAfterValidation(CreateValidation(edForm, edQuestions), "insertForm")
       IN /\ edPc' = next.pc
          /\ edSaving' = next.saving
          /\ edError' = next.error
    /\ UNCHANGED <<edPage, edForm, edQuestions, edNewFormId, clock>>
    /\ UNCHANGED <<storeVars, pubVars, anaVars>>

\* the owner edits the title and the questions in either editor and saves
NextValidate ==
    \/ OpenCreate
    \/ LeaveEditor
    \/ \E title \in ValidateTexts : CreateSetTitle(title)
    \/ CreateAddQuestion
    \/ \E i \in 1..MaxQuestions, text \in ValidateTexts : CreateSetText(i, text)
    \/ CreateSaveFormCall
    \/ CreateSave
    \/ OpenEdit(1)
    \/ \E title \in ValidateTexts : EditSetTitle(title)
    \/ \E i \in 0..(MaxQuestions - 1), text \in ValidateTexts :
          EditUpdateQuestion(i, "question_text", text)
    \/ \E i \in 0..(MaxQuestions - 1) : EditRemoveQuestion(i)
    \/ EditSave

SpecValidate == InitDraft /\ [][NextValidate]_vars

\* ---------------------------------------------------------------- C23
\* the message reported for the draft is the one of its first failing check
C23_First(form, qs, reported) ==
    IF ~Truthy(Trim(form.title))
    THEN reported = Err("Form title is required", << >>)
    ELSE IF Len(qs) = 0
    THEN reported = Err("At least one question is required", << >>)
    ELSE /\ reported.msg \notin {"Form title is required",
                                 "At least one question is required"}
         /\ (\E i \in DOMAIN qs : ~Truthy(Trim(qs[i].question_text)))
               => reported # NoError

\* C23: on both save paths the validation checks run in the order title,
\* then question count, then per-question checks, and only the first
\* failure is reported: a blank title with no questions fails with the
\* title-required error, a non-blank title with no questions with the
\* at-least-one-question error.
C23_ValidationOrder ==
    [][/\ CreateSaveFormCall => C23_First(edForm, edQuestions, edError')
       /\ EditSaveForm => C23_First(edForm, edQuestions, edError')]_vars

\* the edit page after a save of a titled form whose questions were all
\* removed: the question-count error is shown
C23_Witness ==
    /\ edPage = "edit" /\ edPc = "idle"
    /\ Truthy(Trim(edForm.title)) /\ Len(edQuestions) = 0
    /\ edError = Err("At least one question is required", << >>)

\* --------------------------------------- edit-saves between submissions
\* two active forms of the owner with one required text question each,
\* stored by the create path; nobody has answered yet
InitResave ==
    /\ forms = {[id |-> f, user_id |-> Owner, title |-> <<"a">>, is_active |-> TRUE] :
                   f \in 1..2}
    /\ questions = WithIds(CreateQuestionsToInsert(1, TypedDraft(1)), 1)
                   \cup WithIds(CreateQuestionsToInsert(2, TypedDraft(1)), 2)
    /\ responses = {} /\ answers = {}
    /\ nextFormId = 3 /\ nextQuestionId = 3 /\ nextResponseId = 1
    /\ clock = 0
    /\ EdClosed
    /\ PubClosed
    /\ AnaClosed

\* the owner opens the first form in the edit page, retitles it and saves,
\* while an anonymous visitor opens the public page of either form, answers
\* and submits;
\* every storage call can fail
NextResave ==
    \/ OpenEdit(1)
    \/ LeaveEditor
    \/ EditSetTitle(<<"b">>)
    \/ EditSave
    \/ \E f \in 1..2 : PubOpen("anon", f)
    \/ PubClose
    \/ PubLoadForm
    \/ PubLoadQuestions
    \/ \E i \in DOMAIN pubQuestions : HandleAnswerChange(pubQuestions[i].id, TypedText)
    \/ Submit

SpecResave == InitResave /\ [][NextResave]_vars

\* ---------------------------------------------------------------- C24
\* the form row of the edit page's form holds the title and the active flag
\* of the draft
C24_FormUpdated ==
    \E f \in FormById(edForm.id) :
        f.title = Trim(edForm.title) /\ f.is_active = edForm.is_active

\* C24: the edit-save path runs its three storage steps strictly in the
\* order update the form row, delete the form's questions, insert the new
\* questions, each only after the previous one succeeded: the delete is
\* awaited only when the form row holds the draft's fields, the insert
\* only when the form has no stored question, and a step that fails
\* changes no table and ends the attempt.
C24_StepsInOrder ==
    [][edPage = "edit" =>
        /\ (edPc' = "update" /\ edPc # "update") => EditSaveForm
        /\ (edPc' = "delete" /\ edPc # "delete") =>
              /\ edPc = "update"
              /\ C24_FormUpdated'
              /\ UNCHANGED <<questions, answers>>
        /\ (edPc' = "insert" /\ edPc # "insert") =>
              /\ edPc = "delete"
              /\ C24_FormUpdated
              /\ QuestionsOf(edForm.id)' = {}
        /\ forms' # forms => edPc = "update" /\ edPc' = "delete"
        /\ questions' # questions =>
              \/ edPc = "delete" /\ edPc' = "insert"
              \/ edPc = "insert" /\ QuestionsOf(edForm.id) = {} /\ edPage' = "forms"
        /\ (edPc \in {"update", "delete", "insert"} /\ edError' = BackendError) =>
              /\ edPc' = "idle" /\ ~edSaving'
              /\ UNCHANGED <<forms, questions>>]_vars

\* the edit-save of a retitled form awaits the insert: the form row is
\* updated and the form's questions are deleted
C24_Witness ==
    /\ edPage = "edit" /\ edPc = "insert"
    /\ edForm.title = <<"b">> /\ C24_FormUpdated
    /\ QuestionsOf(edForm.id) = {}
    /\ Len(edQuestions) > 0

\* ---------------------------------------------------------------- C25
\* the stored answers of a response
C25_AnswersOf(r) == {a \in answers : a.response_id = r.id}

\* C25: a successful edit-save removes every answer stored for the form's
\* questions (the delete of the questions cascades to them) and leaves the
\* response rows as they are: the delete step removes exactly the answers
\* to the form's questions, and when the save ends no response of the form
\* has an answer.
C25_AnswersCascade ==
    [][edPage = "edit" =>
        /\ (edPc = "delete" /\ edPc' = "insert") =>
              /\ responses' = responses
              /\ answers' = {a \in answers :
                                \A q \in QuestionsOf(edForm.id) : a.question_id # q.id}
              /\ \A r \in responses : r.form_id = edForm.id => C25_AnswersOf(r)' = {}
        /\ (edPc = "insert" /\ edPage' = "forms") =>
              /\ responses' = responses
              /\ answers' = answers
              /\ \A r \in responses : r.form_id = edForm.id => C25_AnswersOf(r)' = {}]_vars

\* the page of the first form shows its submission as stored, the owner has
\* saved the form again since, and the response has no answer left
C25_Witness ==
    /\ pubSubmitted /\ pubFormId = 1 /\ pubQuestions # << >>
    /\ \E r \in responses : r.id = pubResponseId /\ C25_AnswersOf(r) = {}
    /\ edPage = "forms" /\ QuestionsOf(1) # {}

\* ---------------------------------------------------------------- C26
\* the answer rows the public page is about to insert
C26_Rows == AnswersToInsert(pubQuestions, pubAnswers, pubResponseId)

\* C26: under any interleaving of the owner's edit-saves and public
\* submissions every stored answer references a stored response and a
\* stored question of the same form; the answers insert of a submission
\* assembled from a question list that was replaced after the page loaded
\* it fails and stores no answer.
C26_AnswersReferToOneForm ==
    /\ [](\A a \in answers :
             \E r \in responses, q \in questions :
                 /\ r.id = a.response_id
                 /\ q.id = a.question_id
                 /\ q.form_id = r.form_id)
    /\ [][(SubmitInsertAnswers /\ ~QuestionsExist(C26_Rows)) =>
             /\ answers' = answers
             /\ pubError' # NoError
             /\ ~pubSubmitted' /\ ~pubSubmitting']_vars

\* the page holds the questions the form had before the owner saved it
\* again; its submission stored a response, failed at the answers insert on
\* the foreign key and stored no answer
C26_Witness ==
    /\ pubPc = "ready" /\ ~pubSubmitted
    /\ pubError = SubmitErrorMessage("fk")
    /\ pubQuestions # << >>
    /\ \A i \in DOMAIN pubQuestions : pubQuestions[i] \notin questions
    /\ QuestionsOf(pubFormId) # {}
    /\ \E r \in responses : r.id = pubResponseId /\ r.form_id = pubFormId
    /\ \A a \in answers : a.response_id # pubResponseId

\* ---------------------------------------------------------------- C27
\* C27: on the create path the form row is inserted before its questions
\* and stays stored when the insert of the questions fails: the failure
\* leaves a stored form without questions, and the next save of the page
\* inserts one more form row.
C27_FormRowIsKept ==
    [][edPage = "create" =>
        /\ questions' # questions =>
              /\ edPc = "insertQuestions"
              /\ FormById(edNewFormId) # {}
              /\ forms' = forms
        /\ (edPc = "insertQuestions" /\ edPc' = "idle" /\ edPage' = "create") =>
              /\ edError' = BackendError
              /\ forms' = forms /\ questions' = questions
              /\ FormById(edNewFormId)' # {}
              /\ QuestionsOf(edNewFormId)' = {}
        /\ (edPc = "insertForm" /\ edPc' = "insertQuestions") =>
              /\ forms \subseteq forms'
              /\ Cardinality(forms') = Cardinality(forms) + 1
              /\ questions' = questions]_vars

\* the second save of the create page has stored its form and questions
\* next to the form row that the first save left without questions
C27_Witness ==
    /\ edPage = "forms"
    /\ Cardinality(forms) = 2
    /\ QuestionsOf(1) = {} /\ QuestionsOf(2) # {}
    /\ \A f, g \in forms : f.title = g.title

\* ------------------------------------------------- attempts come to an end
\* the owner builds and saves a form of one question in the create page,
\* reopens the stored form in the edit page, removes its first question
\* and saves, while an anonymous visitor opens the public page, answers
\* and submits; every storage call can fail
NextAttempts ==
    \/ OpenCreate
    \/ LeaveEditor
    \/ CreateSetTitle(TypedTitle)
    \/ CreateAddQuestion /\ edQuestions = << >>
    \/ CreateSetText(1, TypedText)
    \/ CreateSave
    \/ OpenEdit(1)
    \/ EditRemoveQuestion(0)
    \/ EditSave
    \/ PubOpen("anon", 1)
    \/ PubClose
    \/ PubLoadForm
    \/ PubLoadQuestions
    \/ \E i \in DOMAIN pubQuestions : HandleAnswerChange(pubQuestions[i].id, TypedText)
    \/ Submit

\* an awaited storage call settles: the step after each await is taken
AttemptsFairness ==
    /\ WF_vars(CreateInsertForm)
    /\ WF_vars(CreateInsertQuestions)
    /\ WF_vars(EditUpdateForm)
    /\ WF_vars(EditDeleteQuestions)
    /\ WF_vars(EditInsertQuestions)
    /\ WF_vars(SubmitInsertResponse)
    /\ WF_vars(SubmitInsertAnswers)

SpecAttempts == InitDraft /\ [][NextAttempts]_vars /\ AttemptsFairness

\* ---------------------------------------------------------------- C29
\* C29: every save attempt of the two editors and every submit attempt of
\* the public page eventually resets its in-progress flag, whether it ends
\* by a validation failure, by a backend error at any step or by success,
\* and the flag is false whenever no attempt is under way.
C29_FlagsAreReset ==
    /\ [](edPc = "idle" => ~edSaving)
    /\ [](pubPc \notin {"insertResponse", "insertAnswers"} => ~pubSubmitting)
    /\ (edPc # "idle") ~> (edPc = "idle" /\ ~edSaving)
    /\ (pubPc \in {"insertResponse", "insertAnswers"}) ~>
           (pubPc \notin {"insertResponse", "insertAnswers"} /\ ~pubSubmitting)

\* a save of an editor and a submission of the public page both ended by
\* a backend error, and neither flag is set
C29_Witness ==
    /\ edPage \in {"create", "edit"} /\ edPc = "idle"
    /\ edError = BackendError /\ ~edSaving
    /\ pubPc = "ready" /\ pubError = SubmitErrorMessage("other") /\ ~pubSubmitting

\* --------------------------------- submissions while the dashboard loads
\* one visit of the dashboard while an anonymous visitor opens the public
\* page of the first form and submits it
NextDashboardLive ==
    \/ NextDashboard
    \/ PubOpen("anon", 1)
    \/ PubLoadForm
    \/ PubLoadQuestions
    \/ SubmitForm
    \/ SubmitInsertResponse

SpecDashboardLive == InitDashboard /\ [][NextDashboardLive]_vars

\* ---------------------------------------------------------------- C30
\* C30: the numbers the dashboard shows together are consistent, also when
\* responses are submitted while it loads: the seven trend counts add up to
\* at most 'This Month', and 'This Month' is at most 'Total Responses'.
C30_ConsistentNumbers ==
    (dbPc = "done" /\ dbTrend # << >>) =>
        /\ Sum([i \in DOMAIN dbTrend |-> dbTrend[i].count]) <= dbStats.thisMonth
        /\ dbStats.thisMonth <= dbStats.totalResponses

====
